---------------------------- MODULE Spec2Model ----------------------------
(***************************************************************************)
(* BookShelf-AI frontend: the upload-status polling loop of AdminPanel,    *)
(* and the intent routing and delete flow of Search.handleSearch.          *)
(*                                                                         *)
(* Two AdminPanel sources exist in the repository: the books panel         *)
(* (frontend/src/components/AdminPanel.js) and the vector-database panel   *)
(* (unnamed/part_001).  The variable `variant` says which one runs.        *)
(***************************************************************************)
EXTENDS Integers, Sequences, FiniteSets, TLC

\* ------------------------------------------------------------------ bounds
MaxUploads == 2      \* ingest requests that return an upload_id in one run
MaxInFlight == 2     \* status requests of one loop outstanding at once
MaxBooks == 2        \* books in a list_books answer
MaxDeletes == 2      \* handleDeleteBook invocations in one run
MaxPieces == 3       \* pieces a generated query is made of
MaxItems == 7        \* elements of an array of a response body
LongLen == 410       \* characters of a long string of a response body
RestartTicks == 1    \* ticks each loop fires once a second upload is under way

\* ------------------------------------------------------- program constants
MaxTries == 40       \* `if (tries > 40)` in the interval callback

Legacy == "AdminPanel.js"
Vector == "part_001"
Variants == {Legacy, Vector}

VARIABLES
  variant,        \* which AdminPanel source is running
  mounted,        \* FALSE once the useEffect cleanup has run
  uploadForm,     \* uploadFile / uploadTitle / uploadAuthor / uploadGenre
  storage,        \* localStorage: user_id, role, isLoggedIn
  uploading,      \* React state `uploading`
  ingest,         \* "idle" | "posting": handleUploadPdf awaiting POST /ingest
  uploadStatus,   \* React state `uploadStatus`
  uploadPollRef,  \* uploadPollRef.current: 0 for null, else an interval id
  loops           \* one entry per setInterval call; interval id = index

pollVars == <<variant, mounted, uploadForm, storage, uploading, ingest,
              uploadStatus, uploadPollRef, loops>>

VARIABLES
  page,             \* the route shown: "search" (Search) or "admin" (AdminPanel)
  query,            \* Search: React state `query`
  answer,           \* Search: React state `answer`
  contextSnippets,  \* Search: React state `contextSnippets`
  sources,          \* Search: React state `sources`
  loading,          \* Search: React state `loading`
  call,             \* the handleSearch invocation: position and locals
  lastAlert,        \* what the last alert() of the invocation said
  vdel,             \* the handleDeleteVectorBook invocation
  loadingBooks      \* AdminPanel (part_001): React state `loadingBooks`

searchVars == <<page, query, answer, contextSnippets, sources, loading, call,
                lastAlert, vdel, loadingBooks>>

VARIABLES
  fetches,          \* AdminPanel: the two fetches its useEffect starts
  session,          \* App: which App source runs, React state isLoggedIn, role
  probe,            \* AdminPanel: a getStatusForUpload call followed step by step
  bdel,             \* AdminPanel.js: the handleDeleteBook invocation, and `loading`
  ingested          \* AdminPanel: what POST /ingest answered last, where followed

appVars == <<fetches, session, probe, bdel, ingested>>

vars == <<pollVars, searchVars, appVars>>

\* ------------------------------------------------------------------ values
\* useState(null): null is the record whose fields are all absent ("").
NullStatus == [upload_id |-> "", status |-> "", message |-> ""]

UploadIds == <<"u1", "u2", "u3">>

\* What one status endpoint can answer.  "FAIL": the request threw.
\* Otherwise res.data, whose status may be missing ("").
ServerStatuses ==
  {"", "indexing", "done", "indexed", "completed", "published", "failed", "error"}
Fail == [ok |-> FALSE, status |-> "", error |-> "", message |-> ""]
StatusData(st) ==
  [ok |-> TRUE, status |-> st,
   error |-> IF st \in {"failed", "error"} THEN "E" ELSE "",
   message |-> IF st = "" THEN "" ELSE "M"]
EndpointReplies == {Fail} \cup {StatusData(st) : st \in ServerStatuses}
\* The MCP endpoint is not queried when the backend request succeeded.
NotAsked == Fail

\* The upload form.  title/author/genre are "" (empty), " " (blank) or "t".
ClearedForm == [file |-> FALSE, title |-> "", author |-> "", genre |-> ""]
CompleteForm == [file |-> TRUE, title |-> "t", author |-> "t", genre |-> "t"]
AdminStorage == [user_id |-> "7", role |-> "admin", isLoggedIn |-> "1"]
\* App after an administrator logged in.  app: the App source that runs,
\* "App.js" or the newer one that Login.js holds from its line 32 on.  role
\* "" is null.  op: the operation of App that ran last.
\* payload: what the last handleLogin / handleSignup was called with.
NoPayload == [kind |-> "none", role |-> "", user_id |-> ""]
AdminSession ==
  [app |-> "Login.js", isLoggedIn |-> TRUE, role |-> "admin", op |-> "login",
   payload |-> [kind |-> "object", role |-> "admin", user_id |-> "7"]]

\* No getStatusForUpload call is followed.  pc: "idle", "backend" (awaiting
\* GET /ingest/status/:id), "mcp" (awaiting GET /mcp/status/:id), "returned"
\* (the call returned, the callback has not gone on yet).  loop: the loop
\* whose callback made the call; asked: the endpoints queried, in order;
\* backend, mcp: what they answered.
NoProbe ==
  [pc |-> "idle", loop |-> 0, asked |-> << >>, backend |-> Fail, mcp |-> Fail]

\* The books panel of AdminPanel.js before any handleDeleteBook.  books:
\* React state `books` (the row i holds the book of id i); calls: the
\* handleDeleteBook invocations that got past the first window.confirm, in
\* the order of the clicks; loading: React state `loading`; alert: the last
\* alert of handleDeleteBook.
NoBdel == [books |-> << >>, calls |-> << >>, loading |-> FALSE, alert |-> ""]

\* String.prototype.trim on the form values used here.
Trim(s) == IF s = " " THEN "" ELSE s

\* a || b on strings: the first when truthy (non-empty), else the second.
OrElse(a, b) == IF a # "" THEN a ELSE b

\* --------------------------------------------------------- getStatusForUpload
\* Faulty variant: what the backend endpoint answered is dropped
getStatusMcpOnly(backend, mcp) == IF mcp.ok THEN mcp ELSE Fail

\* Backend endpoint first; the MCP endpoint only when the backend request
\* threw; null (Fail) when both threw.
getStatusForUpload(backend, mcp) ==
  IF backend.ok THEN backend
  ELSE IF mcp.ok THEN mcp
  ELSE Fail

\* ----------------------------------------------------- status normalisation
\* part_001:       done -> completed, indexed -> completed
\* AdminPanel.js:  done -> published, indexed -> indexed
NormalizeStatus(v, st) ==
  IF v = Vector
    THEN (IF st = "done" \/ st = "indexed" THEN "completed" ELSE st)
    ELSE (IF st = "done" THEN "published" ELSE st)

TerminalStatuses(v) ==
  IF v = Vector THEN {"completed", "failed", "error"}
                ELSE {"published", "failed", "error"}

\* clearInterval(id): stops that interval; clearInterval(null) does nothing.
ClearInterval(ls, id) ==
  IF id = 0 THEN ls ELSE [ls EXCEPT ![id].live = FALSE]

\* A loop: the closure of one startUploadPolling call.  upload_id and tries
\* are its captured variables, live says whether its interval still runs,
\* inflight counts callbacks awaiting getStatusForUpload.  History fields:
\* observed is the first terminal status a callback of the loop has seen,
\* firstStatus what the request of the first tick returned.
\* Faulty variant: the counter is shared with the loop started before
NewLoopSharedCounter(id) ==
  [upload_id |-> id, tries |-> IF loops = << >> THEN 0 ELSE loops[Len(loops)].tries,
   live |-> TRUE, inflight |-> 0, observed |-> "", firstStatus |-> "(pending)"]

NewLoop(id) ==
  [upload_id |-> id, tries |-> 0, live |-> TRUE, inflight |-> 0,
   observed |-> "", firstStatus |-> "(pending)"]

\* ------------------------------------------------------ the initial fetches
\* The fetches the useEffect starts with controller.signal: fetchBooks
\* (AdminPanel.js) or fetchVectorBooks (part_001), and fetchUsers.  Each is
\* "pending" (awaiting axios.get), "done", "failed", "aborted" (the signal
\* fired, the rejection is not handled yet) or "cancelled" (its catch block
\* saw the CanceledError).  booksSet / usersSet: setBooks / setVectorBooks
\* and setUsers were called.  refresh: "pending" while a fetchBooks() /
\* fetchVectorBooks() that a handler called, without a signal, is awaited.
PendingFetches ==
  [books |-> "pending", users |-> "pending", booksSet |-> FALSE, usersSet |-> FALSE,
   refresh |-> "idle"]
SettledFetches ==
  [books |-> "done", users |-> "done", booksSet |-> TRUE, usersSet |-> TRUE,
   refresh |-> "idle"]

\* controller.abort(): every request still pending is rejected.
Abort(f) ==
  [f EXCEPT !.books = IF @ = "pending" THEN "aborted" ELSE @,
            !.users = IF @ = "pending" THEN "aborted" ELSE @]

\* The finally block of fetchVectorBooks (part_001); fetchBooks has none.
AfterFetchBooks(v, isLoading) == IF v = Vector THEN FALSE ELSE isLoading

\* fetchBooks() / fetchVectorBooks() called by a handler, up to its await:
\* fetchVectorBooks starts with setLoadingBooks(true).
Refresh(f) == [f EXCEPT !.refresh = "pending"]
BeforeFetchBooks(v, isLoading) == IF v = Vector THEN TRUE ELSE isLoading

\* ------------------------------------------------------------ upload form
EditUploadForm(f) ==
  /\ mounted
  /\ uploadForm' = f
  /\ UNCHANGED <<variant, mounted, storage, uploading, ingest, uploadStatus,
                 uploadPollRef, loops>>
  /\ UNCHANGED searchVars
  /\ UNCHANGED appVars

\* Faulty variant: the role kept in localStorage is not looked at
UploadRejectedRoleUnchecked(v, f, st) ==
  \/ Trim(f.title) = "" \/ Trim(f.author) = ""
  \/ (v = Vector /\ Trim(f.genre) = "")
  \/ ~f.file
  \/ st.user_id = ""

\* The three early returns of handleUploadPdf.
UploadRejected(v, f, st) ==
  \/ Trim(f.title) = "" \/ Trim(f.author) = ""
  \/ (v = Vector /\ Trim(f.genre) = "")
  \/ ~f.file
  \/ st.user_id = "" \/ st.role # "admin"

\* The alert of the early return taken, in the order of the three tests
UploadAlert(v, f, st) ==
  IF Trim(f.title) = "" \/ Trim(f.author) = "" \/ (v = Vector /\ Trim(f.genre) = "")
    THEN "Title and Author are required"
  ELSE IF ~f.file THEN "Please pick a PDF file"
  ELSE "No user id found or you are not an admin"

\* handleUploadPdf up to its await of POST /ingest.  The submit button is
\* disabled while `uploading` (isUploadDisabled).
HandleUploadPdf ==
  /\ mounted
  /\ ~uploading
  /\ ingest = "idle"
  /\ Len(loops) < MaxUploads
  /\ \A l \in 1..Len(loops) : loops[l].tries <= RestartTicks
  /\ IF UploadRejected(variant, uploadForm, storage)
       THEN /\ lastAlert' = UploadAlert(variant, uploadForm, storage)
            /\ UNCHANGED <<uploading, uploadStatus, ingest>>
       ELSE /\ uploading' = TRUE
            /\ uploadStatus' = NullStatus
            /\ ingest' = "posting"
            /\ lastAlert' = ""
  /\ UNCHANGED <<variant, mounted, uploadForm, storage, uploadPollRef, loops>>
  /\ UNCHANGED <<page, query, answer, contextSnippets, sources, loading, call,
                 vdel, loadingBooks>>
  /\ UNCHANGED appVars

\* What POST /ingest can answer: it throws, or res.data carries an error,
\* an upload_id, both or neither.
NoIngest == [ok |-> FALSE, error |-> "(none)", id |-> FALSE]
IngestReplies ==
  {[ok |-> FALSE, error |-> "", id |-> FALSE]}
    \cup {[ok |-> TRUE, error |-> e, id |-> i] : e \in {"", "E"}, i \in BOOLEAN}

\* Faulty variant: no loop is started for the upload_id
startUploadPollingSkipped(id) ==
  /\ UNCHANGED <<uploadStatus, uploadPollRef, loops>>

\* startUploadPolling(upload_id): the new uploadStatus, loops and ref.
startUploadPolling(id) ==
  /\ uploadStatus' = [upload_id |-> id, status |-> "indexing",
                      message |-> "Indexing started"]
  /\ loops' = Append(ClearInterval(loops, uploadPollRef), NewLoop(id))
  /\ uploadPollRef' = Len(loops) + 1

\* handleUploadPdf after the await: the alert, startUploadPolling or the
\* refresh of the book list, the form cleared; catch; finally.
AfterIngest(r) ==
  /\ ingest = "posting"
  /\ ingest' = "idle"
  /\ uploading' = FALSE
  /\ IF ~r.ok
       THEN UNCHANGED <<uploadForm, uploadStatus, uploadPollRef, loops, fetches,
                        loadingBooks>>
       ELSE /\ uploadForm' = ClearedForm
            /\ IF r.id
                 THEN /\ startUploadPolling(UploadIds[Len(loops) + 1])
                      /\ UNCHANGED <<fetches, loadingBooks>>
                 ELSE /\ fetches' = Refresh(fetches)
                      /\ loadingBooks' = BeforeFetchBooks(variant, loadingBooks)
                      /\ UNCHANGED <<uploadStatus, uploadPollRef, loops>>
  /\ UNCHANGED <<variant, mounted, storage>>
  /\ UNCHANGED <<page, query, answer, contextSnippets, sources, loading, call,
                 lastAlert, vdel>>
  /\ UNCHANGED <<session, probe, bdel>>

\* handleUploadPdf after the await, the answer not kept
IngestResponse(r) == AfterIngest(r) /\ UNCHANGED ingested

\* handleUploadPdf after the await, the answer kept in `ingested`
IngestAnswered(r) == AfterIngest(r) /\ ingested' = r

\* ------------------------------------------------------- interval callback
\* Once a second upload is under way every loop fires at most RestartTicks
\* ticks; a single loop runs unbounded (the code stops it).
TickAllowed(l) ==
  (ingest = "posting" \/ Len(loops) > 1) => loops[l].tries < RestartTicks

\* setInterval fires the callback every 3000 ms whether or not an earlier
\* invocation is still awaiting its status request: tries++ and the call of
\* getStatusForUpload.
FireTick(l) ==
  /\ l \in 1..Len(loops)
  /\ loops[l].live
  /\ loops[l].inflight < MaxInFlight
  /\ TickAllowed(l)
  /\ loops' = [loops EXCEPT ![l].tries = @ + 1, ![l].inflight = @ + 1]
  /\ UNCHANGED <<variant, mounted, uploadForm, storage, uploading, ingest,
                 uploadStatus, uploadPollRef>>
  /\ UNCHANGED searchVars
  /\ UNCHANGED <<fetches, session, bdel, ingested>>

\* A tick whose getStatusForUpload call is not followed step by step
TickFire(l) == FireTick(l) /\ UNCHANGED probe

\* `if (tries > 40)`
TimedOut(tries) == tries > MaxTries

\* On a terminal status AdminPanel.js calls fetchBooks(), part_001 calls
\* fetchVectorBooks() when the status is "completed".
RefreshesBooks(v, statusVal) == v = Legacy \/ statusVal = "completed"

\* The callback from the return of getStatusForUpload to its end.
\* `first`: the request that returns is the one of the loop's first tick.
ResumeTick(l, backend, mcp, first) ==
  /\ l \in 1..Len(loops)
  /\ loops[l].inflight > 0
  /\ first => loops[l].firstStatus = "(pending)"
  /\ (loops[l].firstStatus = "(pending)" /\ loops[l].inflight = 1) => first
  /\ backend.ok => mcp = NotAsked
  /\ LET me == loops[l]
         s == getStatusForUpload(backend, mcp)
         has == s.ok /\ s.status # ""
         statusVal == NormalizeStatus(variant, s.status)
         terminal == has /\ statusVal \in TerminalStatuses(variant)
         timedOut == TimedOut(me.tries)
         us1 == IF has
                  THEN [upload_id |-> me.upload_id, status |-> statusVal,
                        message |-> OrElse(s.error, s.message)]
                  ELSE uploadStatus
         us2 == IF timedOut
                  THEN [us1 EXCEPT !.status = "timeout",
                                   !.message = "Indexing timed out"]
                  ELSE us1
         ls0 == [loops EXCEPT
                   ![l].inflight = @ - 1,
                   ![l].firstStatus =
                      IF first
                        THEN (IF s.ok /\ s.status = "done" THEN "done" ELSE "(other)")
                        ELSE @,
                   ![l].observed = IF terminal /\ @ = "" THEN statusVal ELSE @]
     IN
       /\ uploadStatus' = us2
       /\ loops' = IF terminal \/ timedOut
                      THEN ClearInterval(ls0, uploadPollRef)
                      ELSE ls0
       /\ uploadPollRef' = IF terminal \/ timedOut THEN 0 ELSE uploadPollRef
       /\ IF terminal /\ RefreshesBooks(variant, statusVal)
            THEN /\ fetches' = Refresh(fetches)
                 /\ loadingBooks' = BeforeFetchBooks(variant, loadingBooks)
            ELSE UNCHANGED <<fetches, loadingBooks>>
  /\ UNCHANGED <<variant, mounted, uploadForm, storage, uploading, ingest>>
  /\ UNCHANGED <<page, query, answer, contextSnippets, sources, loading, call,
                 lastAlert, vdel>>
  /\ UNCHANGED <<session, bdel, ingested>>

\* The rest of a callback whose getStatusForUpload call was not followed
\* step by step: backend and mcp are what the endpoints answered
TickResume(l, backend, mcp, first) ==
  ResumeTick(l, backend, mcp, first) /\ UNCHANGED probe

\* ------------------------------------ getStatusForUpload, step by step
\* The callback up to the first await of getStatusForUpload: tries++ and
\* the request to the backend endpoint.
StatusQuery(l) ==
  /\ probe.pc = "idle"
  /\ FireTick(l)
  /\ probe' = [NoProbe EXCEPT !.pc = "backend", !.loop = l, !.asked = <<"backend">>]

\* GET /ingest/status/:id answers: `return res.data`, or the catch block
\* sends the request to the MCP endpoint.
BackendAnswer(b) ==
  /\ probe.pc = "backend"
  /\ probe' = IF b.ok THEN [probe EXCEPT !.pc = "returned", !.backend = b]
                       ELSE [probe EXCEPT !.pc = "mcp", !.asked = Append(@, "mcp")]
  /\ UNCHANGED <<pollVars, searchVars, fetches, session, bdel, ingested>>

\* GET /mcp/status/:id answers: `return res2.data`, or `return null`.
McpAnswer(m) ==
  /\ probe.pc = "mcp"
  /\ probe' = [probe EXCEPT !.pc = "returned", !.mcp = m]
  /\ UNCHANGED <<pollVars, searchVars, fetches, session, bdel, ingested>>

\* The callback goes on with what getStatusForUpload returned.
StatusReturn ==
  /\ probe.pc = "returned"
  /\ ResumeTick(probe.loop, probe.backend, probe.mcp,
                loops[probe.loop].firstStatus = "(pending)")
  /\ probe' = [probe EXCEPT !.pc = "idle"]

\* ------------------------------------------- the fetches after their await
\* A fetchBooks() / fetchVectorBooks() that a handler called, after its
\* await.
RefreshBooksReply(ok) ==
  /\ fetches.refresh = "pending"
  /\ fetches' = [fetches EXCEPT !.refresh = "idle", !.booksSet = @ \/ ok]
  /\ lastAlert' = IF ok THEN lastAlert ELSE "Could not fetch books"
  /\ loadingBooks' = AfterFetchBooks(variant, loadingBooks)
  /\ UNCHANGED <<page, query, answer, contextSnippets, sources, loading, call, vdel>>
  /\ UNCHANGED <<pollVars, session, probe, bdel, ingested>>

\* fetchBooks / fetchVectorBooks after its await: the answer arrived, or
\* the request failed for another reason than the abort.
FetchBooksReply(ok) ==
  /\ fetches.books = "pending"
  /\ fetches' = [fetches EXCEPT !.books = IF ok THEN "done" ELSE "failed",
                                !.booksSet = ok]
  /\ lastAlert' = IF ok THEN lastAlert ELSE "Could not fetch books"
  /\ loadingBooks' = AfterFetchBooks(variant, loadingBooks)
  /\ UNCHANGED <<page, query, answer, contextSnippets, sources, loading, call, vdel>>
  /\ UNCHANGED <<pollVars, session, probe, bdel, ingested>>

\* fetchUsers after its await.
FetchUsersReply(ok) ==
  /\ fetches.users = "pending"
  /\ fetches' = [fetches EXCEPT !.users = IF ok THEN "done" ELSE "failed",
                                !.usersSet = ok]
  /\ lastAlert' = IF ok THEN lastAlert ELSE "Could not fetch users"
  /\ UNCHANGED <<page, query, answer, contextSnippets, sources, loading, call, vdel,
                 loadingBooks>>
  /\ UNCHANGED <<pollVars, session, probe, bdel, ingested>>

\* The catch block of an aborted fetch: `if (axios.isCancel(err) || ...)
\* return`, and then the finally block where there is one.
FetchBooksAborted ==
  /\ fetches.books = "aborted"
  /\ fetches' = [fetches EXCEPT !.books = "cancelled"]
  /\ loadingBooks' = AfterFetchBooks(variant, loadingBooks)
  /\ UNCHANGED <<page, query, answer, contextSnippets, sources, loading, call, vdel,
                 lastAlert>>
  /\ UNCHANGED <<pollVars, session, probe, bdel, ingested>>

FetchUsersAborted ==
  /\ fetches.users = "aborted"
  /\ fetches' = [fetches EXCEPT !.users = "cancelled"]
  /\ UNCHANGED searchVars
  /\ UNCHANGED <<pollVars, session, probe, bdel, ingested>>

\* useEffect cleanup: aborts the fetches and clears the interval the ref
\* holds, if any.
Cleanup ==
  /\ mounted
  /\ mounted' = FALSE
  /\ fetches' = Abort(fetches)
  /\ loops' = ClearInterval(loops, uploadPollRef)
  /\ uploadPollRef' = 0
  /\ UNCHANGED <<variant, uploadForm, storage, uploading, ingest, uploadStatus>>
  /\ UNCHANGED searchVars
  /\ UNCHANGED <<session, probe, bdel, ingested>>

\* =========================================================================
\* Search.js: text, intent routing and the delete flow of handleSearch
\* =========================================================================
\* A JavaScript string is the sequence of its characters.
UpperChars == <<"A", "B", "C", "D", "E", "F", "G", "H", "I", "J", "K", "L", "M",
                "N", "O", "P", "Q", "R", "S", "T", "U", "V", "W", "X", "Y", "Z">>
LowerChars == <<"a", "b", "c", "d", "e", "f", "g", "h", "i", "j", "k", "l", "m",
                "n", "o", "p", "q", "r", "s", "t", "u", "v", "w", "x", "y", "z">>
Range(f) == {f[i] : i \in DOMAIN f}
Digits == {"0", "1", "2", "3", "4", "5", "6", "7", "8", "9"}
\* \w of a JavaScript regular expression
WordChars == Range(UpperChars) \cup Range(LowerChars) \cup Digits \cup {"_"}
\* the white space String.prototype.trim removes (of the characters used)
Blank == {" "}

ToLowerChar(c) ==
  IF c \in Range(UpperChars)
    THEN LowerChars[CHOOSE i \in DOMAIN UpperChars : UpperChars[i] = c]
    ELSE c

\* String.prototype.toLowerCase
toLowerCase(t) == [i \in 1..Len(t) |-> ToLowerChar(t[i])]

\* String.prototype.trim
RECURSIVE trimStart(_)
trimStart(t) ==
  IF t # << >> /\ Head(t) \in Blank THEN trimStart(Tail(t)) ELSE t
RECURSIVE trimEnd(_)
trimEnd(t) ==
  IF t # << >> /\ t[Len(t)] \in Blank THEN trimEnd(SubSeq(t, 1, Len(t) - 1)) ELSE t
\* Faulty variant: no trimming at all
trimNothing(t) == t

trim(t) == trimEnd(trimStart(t))

\* t.startsWith(w, i - 1): w occurs in t at the 1-based position i
OccursAt(t, w, i) ==
  /\ i >= 1
  /\ i + Len(w) - 1 <= Len(t)
  /\ \A k \in 1..Len(w) : t[i + k - 1] = w[k]

\* String.prototype.includes
includes(t, w) == \E i \in 1..(Len(t) + 1) : OccursAt(t, w, i)

\* \b between the characters i and i + 1 of t (i from 0 to Len(t)): exactly
\* one of the two sides is a word character.
IsWordAt(t, i) == i >= 1 /\ i <= Len(t) /\ t[i] \in WordChars
WordBoundary(t, i) == IsWordAt(t, i) # IsWordAt(t, i + 1)

\* Faulty variant: the pattern without its \b anchors: a plain substring match
MatchesWordAtUnanchored(t, w, i) == OccursAt(t, w, i)

\* /\b(w1|w2|...)\b/ matches t at position i with the alternative w
MatchesWordAt(t, w, i) ==
  /\ OccursAt(t, w, i)
  /\ WordBoundary(t, i - 1)
  /\ WordBoundary(t, i + Len(w) - 1)

\* /\b(w1|w2|...)\b/.test(t)
TestWords(t, alts) ==
  \E k \in DOMAIN alts : \E i \in 1..Len(t) : MatchesWordAt(t, alts[k], i)

\* t.replace(/\b(w1|w2|...)\b/ig, ""): scanning from the left, at each
\* position the first alternative that matches (case-insensitively, with
\* both boundaries) is removed and the scan goes on after it.
RECURSIVE RemoveFrom(_, _, _)
RemoveFrom(t, alts, i) ==
  IF i > Len(t) THEN << >>
  ELSE LET low == toLowerCase(t)
           hits == {k \in DOMAIN alts : MatchesWordAt(low, alts[k], i)}
       IN IF hits = {}
            THEN <<t[i]>> \o RemoveFrom(t, alts, i + 1)
            ELSE LET k == CHOOSE h \in hits : \A g \in hits : h <= g
                 IN RemoveFrom(t, alts, i + Len(alts[k]))
RemoveWords(t, alts) == RemoveFrom(t, alts, 1)

\* ------------------------------------------------------------ the words
W_delete == <<"d", "e", "l", "e", "t", "e">>
W_remove == <<"r", "e", "m", "o", "v", "e">>
W_erase == <<"e", "r", "a", "s", "e">>
W_please == <<"p", "l", "e", "a", "s", "e">>
W_kindly == <<"k", "i", "n", "d", "l", "y">>
W_book == <<"b", "o", "o", "k">>
W_books == <<"b", "o", "o", "k", "s">>
W_entry == <<"e", "n", "t", "r", "y">>
W_record == <<"r", "e", "c", "o", "r", "d">>
W_from_your_database == <<"f", "r", "o", "m", " ", "y", "o", "u", "r", " ", "d", "a", "t", "a", "b", "a", "s", "e">>
W_from_the_database == <<"f", "r", "o", "m", " ", "t", "h", "e", " ", "d", "a", "t", "a", "b", "a", "s", "e">>
W_from_database == <<"f", "r", "o", "m", " ", "d", "a", "t", "a", "b", "a", "s", "e">>
W_from_db == <<"f", "r", "o", "m", " ", "d", "b">>
W_from_library == <<"f", "r", "o", "m", " ", "l", "i", "b", "r", "a", "r", "y">>

\* /\b(delete|remove|erase)\b/ and /\b(book|books|entry|record)\b/
DeleteVerbs == <<W_delete, W_remove, W_erase>>
ObjectWords == <<W_book, W_books, W_entry, W_record>>
\* the three replace() patterns of the title extraction, alternatives in order
StripVerbs == <<W_delete, W_remove, W_erase, W_please, W_kindly>>
StripSource == <<W_from_your_database, W_from_the_database, W_from_database,
                 W_from_db, W_from_library>>
StripObjects == <<W_book, W_books, W_entry, W_record>>

listPhrases ==
  {<<"l", "i", "s", "t", " ", "a", "l", "l">>, <<"l", "i", "s", "t", " ", "b", "o", "o", "k", "s">>, <<"l", "i", "s", "t", " ", "t", "h", "e", " ", "b", "o", "o", "k", "s">>, <<"s", "h", "o", "w", " ", "a", "l", "l", " ", "b", "o", "o", "k", "s">>, <<"a", "l", "l", " ", "b", "o", "o", "k", "s">>,
   <<"w", "h", "a", "t", " ", "b", "o", "o", "k", "s">>, <<"g", "i", "v", "e", " ", "m", "e", " ", "a", "l", "l", " ", "b", "o", "o", "k", "s">>}

\* Faulty variant: the query has to be one of the phrases, not to contain one
isListIntentWholeQuery(q) ==
  IF q = << >> THEN FALSE
  ELSE toLowerCase(trim(q)) \in listPhrases

\* isListIntent(q)
isListIntent(q) ==
  IF q = << >> THEN FALSE
  ELSE LET lower == toLowerCase(trim(q))
       IN \E ph \in listPhrases : includes(lower, ph)

\* const isDelete = /\b(delete|remove|erase)\b/.test(lower) && /\b(book|...)\b/.test(lower)
isDelete(lower) == TestWords(lower, DeleteVerbs) /\ TestWords(lower, ObjectWords)

\* the title candidate of the delete branch
titleCandidateOf(cleaned) ==
  LET stripped == trim(RemoveWords(RemoveWords(RemoveWords(cleaned, StripVerbs),
                                               StripSource), StripObjects))
  IN IF stripped = << >> THEN cleaned ELSE stripped

\* const norm = (s) => (s || "").trim().toLowerCase(); a missing field is << >>
norm(x) == toLowerCase(trim(x))

\* ------------------------------------------------------------------ books
\* A book of the MCP registry: title, upload_id, author (<< >> when the field
\* is missing); its book_id is its position in the list.
BookTitles == {<< >>, <<"A", "B", " ">>, <<"x">>}
BookUploadIds == {<< >>, <<"a", "b">>}
BookAuthors == {<<"a">>, <<"x">>}
Books == [title : BookTitles, upload_id : BookUploadIds, author : BookAuthors]
BookLists == UNION {[1..n -> Books] : n \in 0..MaxBooks}

\* Array.prototype.find over a list of truth values: the first index that
\* holds, 0 for undefined.
RECURSIVE FirstFrom(_, _)
FirstFrom(hits, i) ==
  IF i > Len(hits) THEN 0
  ELSE IF hits[i] THEN i
  ELSE FirstFrom(hits, i + 1)
find(hits) == FirstFrom(hits, 1)

\* The three predicates of the delete matching.
ExactHit(b, cand) == norm(b.title) = cand \/ norm(b.upload_id) = cand
TitleHit(b, cand) == includes(norm(b.title), cand) \/ includes(cand, norm(b.title))
AuthorHit(b, cand) == includes(norm(b.author), cand) \/ includes(cand, norm(b.author))

\* Faulty variant: the author rule tried before the title-substring rule
FindMatchAuthorFirst(mbooks, cand) ==
  LET m1 == find([i \in 1..Len(mbooks) |-> ExactHit(mbooks[i], cand)])
      m2 == find([i \in 1..Len(mbooks) |-> TitleHit(mbooks[i], cand)])
      m3 == find([i \in 1..Len(mbooks) |-> AuthorHit(mbooks[i], cand)])
  IN IF m1 # 0 THEN m1 ELSE IF m3 # 0 THEN m3 ELSE m2

\* let match = mbooks.find(exact); if (!match) match = mbooks.find(title);
\* if (!match) match = mbooks.find(author).  The index of the match, 0 for none.
FindMatch(mbooks, cand) ==
  LET m1 == find([i \in 1..Len(mbooks) |-> ExactHit(mbooks[i], cand)])
      m2 == find([i \in 1..Len(mbooks) |-> TitleHit(mbooks[i], cand)])
      m3 == find([i \in 1..Len(mbooks) |-> AuthorHit(mbooks[i], cand)])
  IN IF m1 # 0 THEN m1 ELSE IF m2 # 0 THEN m2 ELSE m3

\* ------------------------------------------------------- JavaScript values
\* A leaf of a JSON body: undefined (the field is missing), null, a string,
\* a number, or an object whose content does not matter.  "throw" stands for
\* the TypeError of a property read on null or undefined.
Undefined == [t |-> "undefined", s |-> << >>, n |-> 0]
Null == [t |-> "null", s |-> << >>, n |-> 0]
Thrown == [t |-> "throw", s |-> << >>, n |-> 0]
Opaque == [t |-> "object", s |-> << >>, n |-> 0]
Str(s) == [t |-> "string", s |-> s, n |-> 0]
Num(n) == [t |-> "number", s |-> << >>, n |-> n]

\* ToBoolean
Truthy(v) ==
  \/ v.t = "string" /\ v.s # << >>
  \/ v.t = "number" /\ v.n # 0
  \/ v.t = "object"
  \/ v.t = "array"

\* Number.prototype.toString for the naturals
DigitChars == <<"0", "1", "2", "3", "4", "5", "6", "7", "8", "9">>
RECURSIVE NumToString(_)
NumToString(n) ==
  IF n < 10 THEN <<DigitChars[n + 1]>>
  ELSE NumToString(n \div 10) \o <<DigitChars[(n % 10) + 1]>>

\* TemplateString, as a template literal applies it
TemplateString(v) ==
  CASE v.t = "string" -> v.s
    [] v.t = "number" -> NumToString(v.n)
    [] v.t = "null" -> <<"n", "u", "l", "l">>
    [] v.t = "undefined" -> <<"u", "n", "d", "e", "f", "i", "n", "e", "d">>
    [] OTHER -> <<"[", "o", "b", "j", "e", "c", "t", " ", "O", "b", "j", "e", "c", "t", "]">>

\* JSON.stringify of a string free of characters to escape
Quote(s) == <<"\"">> \o s \o <<"\"">>

\* JSON.stringify of a leaf
StringifyLeaf(v) ==
  CASE v.t = "string" -> Quote(v.s)
    [] v.t = "number" -> NumToString(v.n)
    [] v.t = "null" -> <<"n", "u", "l", "l">>
    [] OTHER -> <<"{", "}">>

\* An element of context / results / sources: null, a string, a number, or
\* an object with the fields parseMcpAnswer reads and one more (filler).
\* hasMetadata says whether metadata is an object, metaTitle is its title.
ItemKeys == <<"title", "id", "metadata", "source", "snippet", "text", "content", "filler">>
EmptyObject ==
  [t |-> "object", s |-> << >>, n |-> 0, title |-> Undefined, id |-> Undefined,
   hasMetadata |-> FALSE, metaTitle |-> Undefined, source |-> Undefined,
   snippet |-> Undefined, text |-> Undefined, content |-> Undefined,
   filler |-> Undefined]
KeyText ==
  [title |-> <<"t", "i", "t", "l", "e">>, id |-> <<"i", "d">>, metadata |-> <<"m", "e", "t", "a", "d", "a", "t", "a">>, source |-> <<"s", "o", "u", "r", "c", "e">>,
   snippet |-> <<"s", "n", "i", "p", "p", "e", "t">>, text |-> <<"t", "e", "x", "t">>, content |-> <<"c", "o", "n", "t", "e", "n", "t">>, filler |-> <<"f", "i", "l", "l", "e", "r">>]
NullItem == [EmptyObject EXCEPT !.t = "null"]
StrItem(s) == [EmptyObject EXCEPT !.t = "string", !.s = s]
NumItem(n) == [EmptyObject EXCEPT !.t = "number", !.n = n]

\* r.key: a property read.  It throws on null; a primitive has none of
\* these properties.
Get(r, key) ==
  IF r.t \in {"null", "undefined"} THEN Thrown
  ELSE IF r.t # "object" THEN Undefined
  ELSE CASE key = "title" -> r.title
         [] key = "id" -> r.id
         [] key = "metadata" -> IF r.hasMetadata THEN Opaque ELSE Undefined
         [] key = "source" -> r.source
         [] key = "snippet" -> r.snippet
         [] key = "text" -> r.text
         [] key = "content" -> r.content
         [] key = "filler" -> r.filler

\* JSON.stringify of the value of one key of an object
StringifyMember(r, key) ==
  IF key = "metadata"
    THEN <<"{">> \o (IF r.metaTitle.t = "undefined" THEN << >>
                 ELSE Quote(<<"t", "i", "t", "l", "e">>) \o <<":">> \o StringifyLeaf(r.metaTitle)) \o <<"}">>
    ELSE StringifyLeaf(Get(r, key))

\* The members of an object from key number k on, comma separated
RECURSIVE StringifyMembers(_, _, _)
StringifyMembers(r, k, first) ==
  IF k > Len(ItemKeys) THEN << >>
  ELSE IF Get(r, ItemKeys[k]).t = "undefined" THEN StringifyMembers(r, k + 1, first)
  ELSE (IF first THEN << >> ELSE <<",">>)
         \o Quote(KeyText[ItemKeys[k]]) \o <<":">>
         \o StringifyMember(r, ItemKeys[k])
         \o StringifyMembers(r, k + 1, FALSE)

\* JSON.stringify(r) of an element
Stringify(r) ==
  CASE r.t = "null" -> <<"n", "u", "l", "l">>
    [] r.t = "string" -> Quote(r.s)
    [] r.t = "number" -> NumToString(r.n)
    [] OTHER -> <<"{">> \o StringifyMembers(r, 1, TRUE) \o <<"}">>

\* The element as a value: what `typeof c === "string" ? c : ...` looks at
Leaf(r) == [t |-> r.t, s |-> r.s, n |-> r.n]

\* String.prototype.slice(0, k) and Array.prototype.slice(0, k)
slice(x, k) == SubSeq(x, 1, IF Len(x) < k THEN Len(x) ELSE k)

\* a || b
Or(a, b) == IF Truthy(a) THEN a ELSE b

\* ---------------------------------------------------------- parseMcpAnswer
SnippetCap == 6      \* slice(0, 6)
LabelCap == 80       \* JSON.stringify(r).slice(0, 80)

\* A field of the body that may hold an array: undefined, null, a string or
\* an array of elements.
NoField == [t |-> "undefined", s |-> << >>, items |-> << >>]
NullField == [t |-> "null", s |-> << >>, items |-> << >>]
StrField(s) == [t |-> "string", s |-> s, items |-> << >>]
ArrField(a) == [t |-> "array", s |-> << >>, items |-> a]

\* The body of a response: null, a string, a number, or an object with the
\* fields parseMcpAnswer and handleSearch read; payloadAnswer is
\* payload.answer, responseAnswer is response.answer.
EmptyBody ==
  [t |-> "object", s |-> << >>, n |-> 0, answer |-> Undefined, text |-> Undefined,
   data |-> Undefined, context |-> NoField, results |-> NoField, sources |-> NoField,
   payloadAnswer |-> Undefined, responseAnswer |-> Undefined]
NullBody == [EmptyBody EXCEPT !.t = "null"]
StrBody(s) == [EmptyBody EXCEPT !.t = "string", !.s = s]
NumBody(n) == [EmptyBody EXCEPT !.t = "number", !.n = n]

\* resData.answer and the like: undefined on a primitive
Prop(resData, v) == IF resData.t = "object" THEN v ELSE Undefined
PropField(resData, f) == IF resData.t = "object" THEN f ELSE NoField

\* typeof c === "string" ? c : JSON.stringify(c)
StringOf(c) == IF c.t = "string" THEN Str(c.s) ELSE Str(Stringify(c))

\* The body of the loop over results: the snippet pushed for element r
SnippetOf(r) ==
  LET pick == Or(Get(r, "snippet"), Or(Get(r, "text"), Get(r, "content")))
  IN IF Truthy(Leaf(r)) /\ Truthy(pick) THEN pick ELSE Str(Stringify(r))

\* The callback of results.map: the source label of element r
SourceOf(r) ==
  IF ~Truthy(Leaf(r)) THEN Str(<< >>)
  ELSE IF Truthy(Get(r, "title"))
    THEN Str(TemplateString(Get(r, "title"))
             \o (IF Truthy(Get(r, "id"))
                   THEN <<" ", "(">> \o TemplateString(Get(r, "id")) \o <<")">>
                   ELSE << >>))
  ELSE IF Truthy(Get(r, "metadata")) /\ Truthy(r.metaTitle) THEN r.metaTitle
  ELSE Or(Get(r, "id"), Or(Get(r, "source"), Str(slice(Stringify(r), LabelCap))))

Map(a, Op(_)) == [i \in 1..Len(a) |-> Op(a[i])]

\* parseMcpAnswer(resData)
parseMcpAnswer(resData) ==
  IF ~Truthy(Leaf(resData)) THEN [text |-> << >>, snippets |-> << >>, sources |-> << >>]
  ELSE
    LET ans == Prop(resData, resData.answer)
        text == Prop(resData, resData.text)
        data == Prop(resData, resData.data)
        context == PropField(resData, resData.context)
        results == PropField(resData, resData.results)
        srcField == PropField(resData, resData.sources)
        txt == IF ans.t = "string" /\ ans.s # << >> THEN ans.s
               ELSE IF text.t = "string" /\ text.s # << >> THEN text.s
               ELSE IF Truthy(data) /\ data.t = "string" THEN data.s
               ELSE << >>
        snippets ==
          IF context.t = "array" THEN Map(slice(context.items, SnippetCap), StringOf)
          ELSE IF results.t = "array" THEN Map(slice(results.items, SnippetCap), SnippetOf)
          ELSE IF context.t = "string" /\ context.s # << >> THEN <<Str(context.s)>>
          ELSE << >>
        srcs ==
          IF srcField.t = "array" THEN Map(srcField.items, StringOf)
          ELSE IF results.t = "array" THEN Map(slice(results.items, SnippetCap), SourceOf)
          ELSE << >>
    IN [text |-> txt, snippets |-> snippets, sources |-> srcs]

\* JSON.stringify of an array of elements from element number k on
RECURSIVE StringifyItems(_, _)
StringifyItems(a, k) ==
  IF k > Len(a) THEN << >>
  ELSE (IF k = 1 THEN << >> ELSE <<",">>) \o Stringify(a[k]) \o StringifyItems(a, k + 1)

\* JSON.stringify of a field that may hold an array
StringifyField(f) ==
  CASE f.t = "array" -> <<"[">> \o StringifyItems(f.items, 1) \o <<"]">>
    [] f.t = "string" -> Quote(f.s)
    [] OTHER -> <<"n", "u", "l", "l">>

\* The members of a body, in the order answer, text, data, context, results,
\* sources, payload, response
BodyMembers(d) ==
  <<[k |-> <<"a", "n", "s", "w", "e", "r">>, on |-> d.answer.t # "undefined", v |-> StringifyLeaf(d.answer)],
    [k |-> <<"t", "e", "x", "t">>, on |-> d.text.t # "undefined", v |-> StringifyLeaf(d.text)],
    [k |-> <<"d", "a", "t", "a">>, on |-> d.data.t # "undefined", v |-> StringifyLeaf(d.data)],
    [k |-> <<"c", "o", "n", "t", "e", "x", "t">>, on |-> d.context.t # "undefined", v |-> StringifyField(d.context)],
    [k |-> <<"r", "e", "s", "u", "l", "t", "s">>, on |-> d.results.t # "undefined", v |-> StringifyField(d.results)],
    [k |-> <<"s", "o", "u", "r", "c", "e", "s">>, on |-> d.sources.t # "undefined", v |-> StringifyField(d.sources)],
    [k |-> <<"p", "a", "y", "l", "o", "a", "d">>, on |-> d.payloadAnswer.t # "undefined",
     v |-> <<"{">> \o Quote(<<"a", "n", "s", "w", "e", "r">>) \o <<":">> \o StringifyLeaf(d.payloadAnswer) \o <<"}">>],
    [k |-> <<"r", "e", "s", "p", "o", "n", "s", "e">>, on |-> d.responseAnswer.t # "undefined",
     v |-> <<"{">> \o Quote(<<"a", "n", "s", "w", "e", "r">>) \o <<":">> \o StringifyLeaf(d.responseAnswer) \o <<"}">>]>>

RECURSIVE JoinMembers(_, _, _)
JoinMembers(ms, k, first) ==
  IF k > Len(ms) THEN << >>
  ELSE IF ~ms[k].on THEN JoinMembers(ms, k + 1, first)
  ELSE (IF first THEN << >> ELSE <<",">>) \o Quote(ms[k].k) \o <<":">> \o ms[k].v
         \o JoinMembers(ms, k + 1, FALSE)

\* JSON.stringify(res.data)
StringifyBody(d) ==
  CASE d.t = "null" -> <<"n", "u", "l", "l">>
    [] d.t = "string" -> Quote(d.s)
    [] d.t = "number" -> NumToString(d.n)
    [] OTHER -> <<"{">> \o JoinMembers(BodyMembers(d), 1, TRUE) \o <<"}">>

\* --------------------------------------------------------- failed requests
AlertCap == 300      \* JSON.stringify(msg).slice(0, 300)
AnswerCap == 400     \* JSON.stringify(res.data).slice(0, 400)
SearchTimeoutMs == 120000  \* { timeout: 120000 } of POST /mcp/search

LongText == [i \in 1..LongLen |-> "z"]
UndefItem == [EmptyObject EXCEPT !.t = "undefined"]
LongObject == [EmptyObject EXCEPT !.filler = Str(LongText)]

\* What axios rejects with.  response: the server answered (with an error
\* status); data is err.response.data and error is err.response.data.error;
\* message is err.message.
NoError == [response |-> FALSE, error |-> UndefItem, data |-> UndefItem, message |-> << >>]
NetworkError == [NoError EXCEPT !.message = <<"N", "e", "t", "w", "o", "r", "k", " ", "E", "r", "r", "o", "r">>]
TimeoutError == [NoError EXCEPT !.message = <<"t", "i", "m", "e", "o", "u", "t", " ", "o", "f", " ", "1", "2", "0", "0", "0", "0", "m", "s", " ", "e", "x", "c", "e", "e", "d", "e", "d">>]
StatusError(error, data) ==
  [response |-> TRUE, error |-> error, data |-> data,
   message |-> <<"R", "e", "q", "u", "e", "s", "t", " ", "f", "a", "i", "l", "e", "d", " ", "w", "i", "t", "h", " ", "s", "t", "a", "t", "u", "s", " ", "c", "o", "d", "e", " ", "5", "0", "0">>]
Errors ==
  {NetworkError,
   StatusError(StrItem(<<"b", "o", "o", "m">>), EmptyObject),
   StatusError(LongObject, EmptyObject),
   StatusError(UndefItem, LongObject),
   StatusError(UndefItem, StrItem(<<"<", "h", "t", "m", "l", ">">>))}

\* What GET /mcp/list_books can answer: the request throws; or res.data is
\* {books: [...]}, or an array itself, or an object without books, or null.
ListReplies ==
  {[ok |-> FALSE, shape |-> "none", books |-> << >>, err |-> e] : e \in Errors}
    \cup {[ok |-> TRUE, shape |-> sh, books |-> << >>, err |-> NoError] :
            sh \in {"object", "null"}}
    \cup {[ok |-> TRUE, shape |-> sh, books |-> l, err |-> NoError] :
            sh \in {"books", "array"}, l \in BookLists}

\* ------------------------------------------------------- response bodies
\* Elements that results, context and sources arrays are made of.
ItemCycle ==
  <<[EmptyObject EXCEPT !.title = Str(<<"A">>), !.id = Num(1)],
    [EmptyObject EXCEPT !.snippet = Str(<<"s", "n">>), !.source = Str(<<"s", "r", "c">>)],
    StrItem(<<"s">>),
    [EmptyObject EXCEPT !.hasMetadata = TRUE, !.metaTitle = Str(<<"M">>), !.text = Str(<<"t", "x">>)],
    [EmptyObject EXCEPT !.filler = Str(LongText)],
    [EmptyObject EXCEPT !.title = Str(<<"B">>), !.id = Num(0), !.content = Str(<<"c", "t">>)],
    NullItem,
    [EmptyObject EXCEPT !.id = Str(<<"i", "7">>)],
    [EmptyObject EXCEPT !.id = Num(12), !.snippet = Num(5)],
    [EmptyObject EXCEPT !.title = Str(<<"C">>), !.id = Str(<<"c", "3">>), !.hasMetadata = TRUE],
    EmptyObject,
    NumItem(0)>>

\* The array of n elements taken from the cycle from position j on
ItemsFrom(j, n) == [i \in 1..n |-> ItemCycle[((j + i - 2) % Len(ItemCycle)) + 1]]
ItemArrays == {ItemsFrom(j, n) : j \in 1..Len(ItemCycle), n \in 0..MaxItems}
TextArrays == {[i \in 1..n |-> StrItem(<<DigitChars[i + 1]>>)] : n \in {0, 1, MaxItems}}

\* Bodies that differ in the fields the answer text comes from
TextBodies ==
  {[EmptyBody EXCEPT !.answer = a, !.text = t, !.data = d,
                     !.payloadAnswer = p, !.responseAnswer = q] :
     a \in {Undefined, Str(<<"h", "i">>), Str(<< >>), Num(5)},
     t \in {Undefined, Str(<<"t", "x">>)},
     d \in {Undefined, Str(<<"d", "a">>), Opaque},
     p \in {Undefined, Str(<<"p", "a">>), Num(7)},
     q \in {Undefined, Str(<<"r", "a">>)}}

\* Bodies that differ in context, results and sources
ArrayBodies ==
  {[EmptyBody EXCEPT !.answer = Str(<<"h", "i">>), !.context = c, !.results = r, !.sources = s] :
     c \in {NoField, NullField, StrField(<<"c", "x">>)} \cup {ArrField(a) : a \in TextArrays},
     r \in {NoField} \cup {ArrField(a) : a \in ItemArrays},
     s \in {NoField, StrField(<<"s", "x">>)}
             \cup {ArrField(a) : a \in TextArrays \cup {ItemsFrom(1, 2)}}}

\* Every value parseMcpAnswer is applied to
Responses ==
  {NullBody, StrBody(<< >>), StrBody(<<"o", "k">>), NumBody(0), NumBody(3)}
    \cup TextBodies \cup ArrayBodies

\* What POST /mcp/search can answer: a body, or the request throws.
SearchBodies ==
  {NullBody, StrBody(<< >>), EmptyBody,
   [EmptyBody EXCEPT !.answer = Str(<<"h", "i">>), !.results = ArrField(ItemsFrom(1, 1))],
   [EmptyBody EXCEPT !.context = ArrField([i \in 1..MaxItems |-> StrItem(<<DigitChars[i + 1]>>)])],
   [EmptyBody EXCEPT !.payloadAnswer = Str(<<"p", "a">>)],
   [EmptyBody EXCEPT !.responseAnswer = Num(7)],
   [EmptyBody EXCEPT !.results = ArrField(ItemsFrom(5, 2))]}
SearchReplies ==
  {[ok |-> TRUE, data |-> d, err |-> NoError] : d \in SearchBodies}
    \cup {[ok |-> FALSE, data |-> NullBody, err |-> e] : e \in Errors}

\* err?.response?.data?.error || err?.message || String(err)
DeleteErrorMessage(err) ==
  IF err.response /\ Truthy(Leaf(err.error)) THEN err.error
  ELSE IF err.message # << >> THEN StrItem(err.message)
  ELSE StrItem(<<"E", "r", "r", "o", "r">>)

\* err?.response?.data?.error || err?.response?.data || err.message || String(err)
SearchErrorMessage(err) ==
  IF err.response /\ Truthy(Leaf(err.error)) THEN err.error
  ELSE IF err.response /\ Truthy(Leaf(err.data)) THEN err.data
  ELSE IF err.message # << >> THEN StrItem(err.message)
  ELSE StrItem(<<"E", "r", "r", "o", "r">>)

\* Faulty variant: the serialization is not cut
AlertDetailUncut(msg) ==
  IF msg.t = "string" THEN msg.s ELSE Stringify(msg)

\* typeof msg === "string" ? msg : JSON.stringify(msg).slice(0, 300)
AlertDetail(msg) ==
  IF msg.t = "string" THEN msg.s ELSE slice(Stringify(msg), AlertCap)

\* ------------------------------------------------------------ handleSearch
NoAnswer == [kind |-> "", text |-> << >>, lines |-> << >>]
Answer(k, t) == [kind |-> k, text |-> t, lines |-> << >>]
NoParsed == [text |-> << >>, snippets |-> << >>, sources |-> << >>]

\* The handleSearch invocation.  pc: "idle" (none yet), "del_list" (delete
\* branch awaiting list_books), "del_post" (awaiting delete_book),
\* "list_get" (list branch awaiting list_books), "search_post" (awaiting
\* search), "done".  route: the branch taken.  titleCandidate, mbooks, match:
\* the locals of the delete branch.  asked / confirmed: window.confirm was
\* shown for book `asked` and what the user answered.  sent: the requests
\* this invocation has issued, book: the book_id a delete request carried.
\* data, parsed, finalText: res.data of the search request and what became
\* of it.  caught: the catch block ran; alertDetail is what it appended to
\* "Search failed: ", alertJson whether that part came from JSON.stringify.
\* listed: what list_books answered to the list branch.
NoListReply == [ok |-> FALSE, shape |-> "none", books |-> << >>, err |-> NoError]
NoCall ==
  [pc |-> "idle", route |-> "", titleCandidate |-> << >>, mbooks |-> << >>,
   match |-> 0, asked |-> 0, confirmed |-> FALSE, sent |-> << >>, book |-> 0,
   data |-> NullBody, parsed |-> NoParsed, finalText |-> Undefined,
   caught |-> FALSE, alertDetail |-> << >>, alertJson |-> FALSE,
   listed |-> NoListReply]

\* The catch block of handleSearch for the error err
Caught(c, err) ==
  [c EXCEPT !.pc = "done", !.caught = TRUE,
            !.alertDetail = AlertDetail(SearchErrorMessage(err)),
            !.alertJson = SearchErrorMessage(err).t # "string"]

\* Where handleSearch goes once the query is not blank.
RouteOf(cleaned) ==
  IF isDelete(toLowerCase(cleaned)) THEN "delete"
  ELSE IF isListIntent(cleaned) THEN "list"
  ELSE "search"

\* Faulty variant: the form stays enabled while a query is in flight
SubmitAlwaysEnabled(isLoading) == TRUE

\* disabled={loading} on the input and on the submit button
SubmitEnabled(isLoading) == ~isLoading

\* The form of the Search page can be submitted: onSubmit={handleSearch}
\* fires only through the input or the button, both disabled while loading.
CanSubmit == page = "search" /\ SubmitEnabled(loading)

\* handleSearch from the submit to its first await (or its early return).
HandleSearch ==
  /\ CanSubmit
  /\ contextSnippets' = << >>
  /\ sources' = << >>
  /\ answer' = NoAnswer
  /\ LET cleaned == trim(query)
         route == RouteOf(cleaned)
     IN IF cleaned = << >>
          THEN /\ lastAlert' = "Please enter a question or query."
               /\ loading' = FALSE
               /\ call' = [NoCall EXCEPT !.pc = "done", !.route = "blank"]
          ELSE /\ lastAlert' = ""
               /\ loading' = TRUE
               /\ call' =
                    [NoCall EXCEPT
                       !.route = route,
                       !.pc = CASE route = "delete" -> "del_list"
                                [] route = "list" -> "list_get"
                                [] OTHER -> "search_post",
                       !.titleCandidate =
                          IF route = "delete" THEN titleCandidateOf(cleaned) ELSE << >>,
                       !.sent = IF route = "search" THEN <<"search">>
                                                   ELSE <<"list_books">>]
  /\ UNCHANGED <<page, query, vdel, loadingBooks>>
  /\ UNCHANGED pollVars
  /\ UNCHANGED appVars

\* Faulty variant: the answer of window.confirm is ignored
ConfirmIgnored(yes) == TRUE

\* `if (!window.confirm(...)) return`: the handler goes on when the user
\* answered yes.
ConfirmedDelete(yes) == yes

\* The delete branch from the answer of list_books to the await of the
\* delete request, or to its return.  window.confirm blocks the handler, so
\* the user's answer `yes` is part of the step.
DeleteListReply(r) ==
  /\ call.pc = "del_list"
  /\ IF ~r.ok
       THEN /\ lastAlert' = "Search failed"
            /\ loading' = FALSE
            /\ call' = Caught(call, r.err)
            /\ UNCHANGED answer
       ELSE LET mbooks == IF r.shape = "books" THEN r.books ELSE << >>
                cand == norm(call.titleCandidate)
                m == FindMatch(mbooks, cand)
                c1 == [call EXCEPT !.mbooks = mbooks, !.match = m]
            IN IF m = 0
                 THEN /\ answer' = Answer("notfound", call.titleCandidate)
                      /\ loading' = FALSE
                      /\ call' = [c1 EXCEPT !.pc = "done"]
                      /\ UNCHANGED lastAlert
                 ELSE \E yes \in BOOLEAN :
                      IF ~ConfirmedDelete(yes)
                      THEN /\ answer' = Answer("cancelled", << >>)
                           /\ loading' = FALSE
                           /\ call' = [c1 EXCEPT !.pc = "done", !.asked = m,
                                                 !.confirmed = yes]
                           /\ UNCHANGED lastAlert
                      ELSE /\ call' = [c1 EXCEPT !.pc = "del_post", !.asked = m,
                                                 !.confirmed = yes,
                                                 !.sent = Append(call.sent, "delete_book"),
                                                 !.book = m]
                           /\ UNCHANGED <<answer, loading, lastAlert>>
  /\ UNCHANGED <<page, query, contextSnippets, sources, vdel, loadingBooks>>
  /\ UNCHANGED pollVars
  /\ UNCHANGED appVars

\* What POST /mcp/delete_book can answer: success, or the request throws.
DeleteReplies ==
  {[ok |-> TRUE, err |-> NoError]} \cup {[ok |-> FALSE, err |-> e] : e \in Errors}

\* The delete branch after the await of POST /mcp/delete_book: the inner
\* try / catch, then setLoading(false).
DeleteReply(r) ==
  /\ call.pc = "del_post"
  /\ answer' = IF r.ok THEN Answer("deleted", call.mbooks[call.match].title)
                       ELSE Answer("deleteFailed",
                                   TemplateString(Leaf(DeleteErrorMessage(r.err))))
  /\ loading' = FALSE
  /\ call' = [call EXCEPT !.pc = "done"]
  /\ UNCHANGED <<page, query, contextSnippets, sources, lastAlert, vdel,
                 loadingBooks>>
  /\ UNCHANGED pollVars
  /\ UNCHANGED appVars

\* `${b.title || b.name || "Untitled"}` and `${b.author || "Unknown"}`
OrDefault(t, d) == IF t # << >> THEN t ELSE d
SummaryLine(b) ==
  <<OrDefault(b.title, <<"U", "n", "t", "i", "t", "l", "e", "d">>), OrDefault(b.author, <<"U", "n", "k", "n", "o", "w", "n">>)>>

\* Faulty variant: a body that is no array is taken for an empty list
ListAnswerShapeIgnored(r) ==
  IF r.books = << >> THEN Answer("noBooks", << >>)
  ELSE [kind |-> "summary", text |-> << >>,
        lines |-> [i \in 1..Len(r.books) |-> SummaryLine(r.books[i])]]

\* const books = res.data?.books || res.data || []: a null body gives [],
\* an object without books gives the object.  Then the three answers:
\* not an array, an empty array, one line per book.
ListAnswer(r) ==
  IF r.shape = "object" THEN Answer("unexpectedShape", << >>)
  ELSE IF r.books = << >> THEN Answer("noBooks", << >>)
  ELSE [kind |-> "summary", text |-> << >>,
        lines |-> [i \in 1..Len(r.books) |-> SummaryLine(r.books[i])]]

\* The list branch after the await of GET /mcp/list_books.
ListAllReply(r) ==
  /\ call.pc = "list_get"
  /\ IF ~r.ok
       THEN /\ lastAlert' = "Search failed"
            /\ call' = Caught(call, r.err)
            /\ UNCHANGED answer
       ELSE /\ UNCHANGED lastAlert
            /\ call' = [call EXCEPT !.pc = "done", !.listed = r]
            /\ answer' = ListAnswer(r)
  /\ loading' = FALSE
  /\ UNCHANGED <<page, query, contextSnippets, sources, vdel, loadingBooks>>
  /\ UNCHANGED pollVars
  /\ UNCHANGED appVars

\* finalText: text, else res.data?.payload?.answer, else
\* res.data?.response?.answer, else JSON.stringify(res.data).slice(0, 400)
FinalText(data, text) ==
  IF text # << >> THEN Str(text)
  ELSE IF data.t = "object" /\ Truthy(data.payloadAnswer) THEN data.payloadAnswer
  ELSE IF data.t = "object" /\ Truthy(data.responseAnswer) THEN data.responseAnswer
  ELSE Str(slice(StringifyBody(data), AnswerCap))

\* The search branch after the await of POST /mcp/search: the answer the
\* response yields, or the alert of the catch block; then finally.
SearchReply(r) ==
  /\ call.pc = "search_post"
  /\ IF r.ok
       THEN LET parsed == parseMcpAnswer(IF Truthy(Leaf(r.data)) THEN r.data ELSE EmptyBody)
                final == FinalText(r.data, parsed.text)
            IN /\ answer' = Answer(IF final.t = "string" THEN "search" ELSE "searchValue",
                                   TemplateString(final))
               /\ contextSnippets' = parsed.snippets
               /\ sources' = parsed.sources
               /\ call' = [call EXCEPT !.pc = "done", !.data = r.data,
                                       !.parsed = parsed, !.finalText = final]
               /\ UNCHANGED lastAlert
       ELSE /\ lastAlert' = "Search failed"
            /\ call' = Caught(call, r.err)
            /\ UNCHANGED <<answer, contextSnippets, sources>>
  /\ loading' = FALSE
  /\ UNCHANGED <<page, query, vdel, loadingBooks>>
  /\ UNCHANGED pollVars
  /\ UNCHANGED appVars

\* The search request runs into its timeout: axios rejects it.
SearchTimeout ==
  /\ SearchTimeoutMs > 0
  /\ SearchReply([ok |-> FALSE, data |-> NullBody, err |-> TimeoutError])

\* ------------------------------------- AdminPanel: handleDeleteVectorBook
NoVdel == [pc |-> "idle", asked |-> 0, confirmed |-> FALSE, sent |-> << >>, book |-> 0]

\* handleDeleteVectorBook(book) up to its await; `b` is the book_id of the
\* row clicked, `yes` what window.confirm returns.
HandleDeleteVectorBook(b, yes) ==
  /\ page = "admin"
  /\ vdel.pc \in {"idle", "done"}
  /\ IF ~ConfirmedDelete(yes)
       THEN /\ vdel' = [NoVdel EXCEPT !.pc = "done", !.asked = b, !.confirmed = yes]
            /\ UNCHANGED loadingBooks
       ELSE /\ vdel' = [NoVdel EXCEPT !.pc = "del_post", !.asked = b,
                                      !.confirmed = yes,
                                      !.sent = <<"delete_book">>, !.book = b]
            /\ loadingBooks' = TRUE
  /\ UNCHANGED <<page, query, answer, contextSnippets, sources, loading, call,
                 lastAlert>>
  /\ UNCHANGED pollVars
  /\ UNCHANGED appVars

\* handleDeleteVectorBook after the await: alert, refresh on success, finally.
VectorDeleteReply(ok) ==
  /\ vdel.pc = "del_post"
  /\ vdel' = [vdel EXCEPT !.pc = "done",
                          !.sent = IF ok THEN Append(@, "list_books") ELSE @]
  /\ loadingBooks' = FALSE
  /\ UNCHANGED <<page, query, answer, contextSnippets, sources, loading, call,
                 lastAlert>>
  /\ UNCHANGED pollVars
  /\ UNCHANGED appVars

\* =========================================================================
\* Specifications
\* =========================================================================
SearchQuiet ==
  /\ query = << >>
  /\ answer = NoAnswer
  /\ contextSnippets = << >>
  /\ sources = << >>
  /\ loading = FALSE
  /\ call = NoCall
  /\ lastAlert = ""
  /\ vdel = NoVdel
  /\ loadingBooks = FALSE
  /\ fetches = SettledFetches
  /\ session = AdminSession
  /\ probe = NoProbe
  /\ bdel = NoBdel
  /\ ingested = NoIngest

\* AdminPanel after construction, before any upload
PollInit ==
  /\ mounted = TRUE
  /\ uploadForm = ClearedForm
  /\ storage = AdminStorage
  /\ uploading = FALSE
  /\ ingest = "idle"
  /\ uploadStatus = NullStatus
  /\ uploadPollRef = 0
  /\ loops = << >>
\* ---- Spec: AdminPanel, the upload form and the polling loop
Init ==
  /\ variant \in Variants
  /\ PollInit
  /\ page = "admin"
  /\ SearchQuiet

Next ==
  \/ EditUploadForm(CompleteForm)
  \/ HandleUploadPdf
  \/ \E r \in IngestReplies : IngestResponse(r)
  \/ \E l \in 1..MaxUploads : TickFire(l)
  \/ \E l \in 1..MaxUploads, b \in EndpointReplies, m \in EndpointReplies,
        first \in BOOLEAN : TickResume(l, b, m, first)
  \/ Cleanup

Spec == Init /\ [][Next]_vars

\* ---- SpecFair: Spec, where the timer of a running interval goes on firing.
\* setInterval fires its callback as long as the interval is not cleared;
\* nothing makes a status request return: axios.get is called without a
\* timeout.
SpecFair == Spec /\ \A l \in 1..MaxUploads : WF_vars(TickFire(l))

\* ---- SpecProbe: Spec with one status query at a time, each followed from
\* its request to the backend endpoint to the return of getStatusForUpload.
NextProbe ==
  \/ EditUploadForm(CompleteForm)
  \/ HandleUploadPdf
  \/ \E r \in IngestReplies : IngestResponse(r)
  \/ \E l \in 1..MaxUploads : StatusQuery(l)
  \/ \E b \in EndpointReplies : BackendAnswer(b)
  \/ \E m \in EndpointReplies : McpAnswer(m)
  \/ StatusReturn

SpecProbe == Init /\ [][NextProbe]_vars

\* ---- SpecUpload: the upload form filled in any way, by a user of any
\* role, and handleUploadPdf to its end; no tick fires.
UploadTexts == {"", " ", "t"}
UploadForms(v) ==
  [file : BOOLEAN, title : UploadTexts, author : UploadTexts,
   genre : IF v = Vector THEN UploadTexts ELSE {""}]
UploadStorages ==
  [user_id : {"", "7"}, role : {"", "user", "admin"}, isLoggedIn : {"1"}]

InitUpload ==
  /\ variant \in Variants
  /\ mounted = TRUE
  /\ uploadForm = ClearedForm
  /\ storage \in UploadStorages
  /\ uploading = FALSE
  /\ ingest = "idle"
  /\ uploadStatus = NullStatus
  /\ uploadPollRef = 0
  /\ loops = << >>
  /\ page = "admin"
  /\ SearchQuiet

NextUpload ==
  \/ \E f \in UploadForms(variant) : EditUploadForm(f)
  \/ HandleUploadPdf
  \/ \E r \in IngestReplies : IngestAnswered(r)
  \/ \E ok \in BOOLEAN : RefreshBooksReply(ok)

SpecUpload == InitUpload /\ [][NextUpload]_vars

\* ---- SpecSearch: one typed query, handleSearch and the vector-book delete
\* The queries typed into the search box.
TypedQueries ==
  {<< >>, <<" ">>, <<"d", "e", "l", "e", "t", "e", " ", "b", "o", "o", "k", " ", "a", "b">>, <<"P", "l", "e", "a", "s", "e", " ", "r", "e", "m", "o", "v", "e", " ", "t", "h", "e", " ", "r", "e", "c", "o", "r", "d", " ", "A", "B", " ">>,
   <<"e", "r", "a", "s", "e", " ", "e", "n", "t", "r", "y", " ", "a", " ", "f", "r", "o", "m", " ", "d", "b">>, <<"d", "e", "l", "e", "t", "e", " ", "b", "o", "o", "k">>, <<"d", "e", "l", "e", "t", "e", " ", "b", "o", "o", "k", "s", " ", "x">>,
   <<"l", "i", "s", "t", " ", "a", "l", "l", " ", "b", "o", "o", "k", "s">>, <<"d", "e", "l", "e", "t", "e", "b", "o", "o", "k", " ", "a", "b">>, <<"a", "b">>}

InitSearch ==
  /\ variant = Vector
  /\ PollInit
  /\ page \in {"search", "admin"}
  /\ query \in IF page = "search" THEN TypedQueries ELSE {<< >>}
  /\ answer = NoAnswer
  /\ contextSnippets = << >>
  /\ sources = << >>
  /\ loading = FALSE
  /\ call = NoCall
  /\ lastAlert = ""
  /\ vdel = NoVdel
  /\ loadingBooks = FALSE
  /\ fetches = SettledFetches
  /\ session = AdminSession
  /\ probe = NoProbe
  /\ bdel = NoBdel
  /\ ingested = NoIngest

NextSearch ==
  \/ HandleSearch
  \/ \E r \in ListReplies : DeleteListReply(r)
  \/ \E r \in DeleteReplies : DeleteReply(r)
  \/ \E r \in ListReplies : ListAllReply(r)
  \/ \E r \in SearchReplies : SearchReply(r)
  \/ SearchTimeout
  \/ \E b \in 1..MaxBooks, yes \in BOOLEAN : HandleDeleteVectorBook(b, yes)
  \/ \E ok \in BOOLEAN : VectorDeleteReply(ok)

SpecSearch == InitSearch /\ [][NextSearch]_vars

\* ---- SpecSearchFair: SpecSearch in which a request that carries a timeout
\* is rejected in the end when no answer comes.  Nothing obliges the server
\* to answer, nor the user to submit.
SpecSearchFair == SpecSearch /\ WF_vars(SearchTimeout)

\* ---- SpecRoute: handleSearch on generated queries, up to its routing
\* The pieces generated queries are made of.
Pieces ==
  {W_delete, <<"R", "e", "m", "o", "v", "e">>, W_erase, W_book, W_books, W_entry, W_record, <<"w", "a", "y">>,
   <<" ">>, <<"L", "i", "s", "t", " ", "a", "l", "l", " ", "b", "o", "o", "k", "s">>}
RECURSIVE Concat(_)
Concat(ps) == IF ps = << >> THEN << >> ELSE Head(ps) \o Concat(Tail(ps))
GeneratedQueries ==
  {Concat(ps) : ps \in UNION {[1..n -> Pieces] : n \in 0..MaxPieces}}

InitRoute ==
  /\ variant = Vector
  /\ PollInit
  /\ page = "search"
  /\ query \in GeneratedQueries
  /\ answer = NoAnswer
  /\ contextSnippets = << >>
  /\ sources = << >>
  /\ loading = FALSE
  /\ call = NoCall
  /\ lastAlert = ""
  /\ vdel = NoVdel
  /\ loadingBooks = FALSE
  /\ fetches = SettledFetches
  /\ session = AdminSession
  /\ probe = NoProbe
  /\ bdel = NoBdel
  /\ ingested = NoIngest

NextRoute == call.pc = "idle" /\ HandleSearch

SpecRoute == InitRoute /\ [][NextRoute]_vars
\* ---- SpecMount: AdminPanel from its mount, with the initial fetches in
\* flight, to its teardown; uploads start polling loops, no tick fires.
InitMount ==
  /\ variant \in Variants
  /\ PollInit
  /\ page = "admin"
  /\ query = << >>
  /\ answer = NoAnswer
  /\ contextSnippets = << >>
  /\ sources = << >>
  /\ loading = FALSE
  /\ call = NoCall
  /\ lastAlert = ""
  /\ vdel = NoVdel
  /\ loadingBooks = (variant = Vector)
  /\ fetches = PendingFetches
  /\ session = AdminSession
  /\ probe = NoProbe
  /\ bdel = NoBdel
  /\ ingested = NoIngest

NextMount ==
  \/ \E ok \in BOOLEAN : FetchBooksReply(ok)
  \/ \E ok \in BOOLEAN : FetchUsersReply(ok)
  \/ FetchBooksAborted
  \/ FetchUsersAborted
  \/ \E ok \in BOOLEAN : RefreshBooksReply(ok)
  \/ Cleanup
  \/ EditUploadForm(CompleteForm)
  \/ HandleUploadPdf
  \/ \E r \in IngestReplies : IngestResponse(r)

SpecMount == InitMount /\ [][NextMount]_vars

\* =========================================================================
\* App: hydrate, handleLogin, handleSignup, handleLogout
\* =========================================================================
Apps == {"App.js", "Login.js"}
EmptyStorage == [user_id |-> "", role |-> "", isLoggedIn |-> ""]
FreshSession(a) ==
  [app |-> a, isLoggedIn |-> FALSE, role |-> "", op |-> "init", payload |-> NoPayload]

\* What onLogin / onSignup is called with: nothing, a string (the role), or
\* an object {role, user_id} whose fields may be missing ("").
Payloads ==
  {[kind |-> "undefined", role |-> "", user_id |-> ""]}
    \cup {[kind |-> "string", role |-> r, user_id |-> ""] : r \in {"", "user", "admin"}}
    \cup {[kind |-> "object", role |-> r, user_id |-> u] :
            r \in {"", "user", "admin"}, u \in {"", "7", "8"}}

\* The role handleLogin takes from its argument: App.js takes the argument
\* itself (an object is truthy and is kept as it is: "[object Object]" once
\* stored), the newer App tells a string from an object; both end with
\* `r || "user"`.
RoleOf(a, payload) ==
  IF a = "App.js"
    THEN (IF payload.kind = "object" THEN "[object Object]"
                                     ELSE OrElse(payload.role, "user"))
    ELSE OrElse(IF payload.kind = "undefined" THEN "user" ELSE OrElse(payload.role, "user"),
                "user")

\* The user id handleLogin takes from its argument ("" for null); App.js
\* takes none.
UidOf(a, payload) ==
  IF a = "Login.js" /\ payload.kind = "object" THEN payload.user_id ELSE ""

\* localStorage after handleLogin / handleSignup
LoginStorage(a, st, payload) ==
  [st EXCEPT !.isLoggedIn = "1",
             !.role = RoleOf(a, payload),
             !.user_id = IF UidOf(a, payload) # "" THEN UidOf(a, payload) ELSE @]

\* localStorage after handleLogout: App.js removes isLoggedIn and role, the
\* newer App user_id as well.
LogoutStorage(a, st) ==
  [st EXCEPT !.isLoggedIn = "", !.role = "",
             !.user_id = IF a = "Login.js" THEN "" ELSE @]

\* A reload of the page: App is constructed again (isLoggedIn false, role
\* null) and its useEffect hydrates from localStorage.
Hydrate ==
  /\ session' = IF storage.isLoggedIn # ""
                  THEN [session EXCEPT !.isLoggedIn = TRUE,
                                       !.role = OrElse(storage.role, "user"),
                                       !.op = "hydrate"]
                  ELSE [session EXCEPT !.isLoggedIn = FALSE, !.role = "",
                                       !.op = "hydrate"]
  /\ UNCHANGED <<pollVars, searchVars, fetches, probe, bdel, ingested>>

handleLogin(payload) ==
  /\ session' = [session EXCEPT !.isLoggedIn = TRUE,
                                !.role = RoleOf(session.app, payload),
                                !.op = "login", !.payload = payload]
  /\ storage' = LoginStorage(session.app, storage, payload)
  /\ UNCHANGED <<variant, mounted, uploadForm, uploading, ingest, uploadStatus,
                 uploadPollRef, loops>>
  /\ UNCHANGED <<searchVars, fetches, probe, bdel, ingested>>

handleSignup(payload) ==
  /\ session' = [session EXCEPT !.isLoggedIn = TRUE,
                                !.role = RoleOf(session.app, payload),
                                !.op = "signup", !.payload = payload]
  /\ storage' = LoginStorage(session.app, storage, payload)
  /\ UNCHANGED <<variant, mounted, uploadForm, uploading, ingest, uploadStatus,
                 uploadPollRef, loops>>
  /\ UNCHANGED <<searchVars, fetches, probe, bdel, ingested>>

\* Navbar offers Logout only while isLoggedIn.
handleLogout ==
  /\ session.isLoggedIn
  /\ session' = [session EXCEPT !.isLoggedIn = FALSE, !.role = "", !.op = "logout"]
  /\ storage' = LogoutStorage(session.app, storage)
  /\ UNCHANGED <<variant, mounted, uploadForm, uploading, ingest, uploadStatus,
                 uploadPollRef, loops>>
  /\ UNCHANGED <<searchVars, fetches, probe, bdel, ingested>>

\* The routes of App: "/" and "/login", "/signup", "/search", "/admin",
\* "/admin/users/:id/edit".
Routes == {"login", "signup", "search", "admin", "edit"}

\* Faulty variant: the admin routes look at isLoggedIn only
RenderedRoleUnchecked(p, isLoggedIn, role) ==
  CASE p = "signup" -> "Signup"
    [] p = "search" -> IF isLoggedIn THEN "Search" ELSE "Login"
    [] p = "admin" -> IF isLoggedIn THEN "AdminPanel" ELSE "Login"
    [] p = "edit" -> IF isLoggedIn THEN "EditUser" ELSE "Login"
    [] OTHER -> "Login"

\* The element of the route p
Rendered(p, isLoggedIn, role) ==
  CASE p = "signup" -> "Signup"
    [] p = "search" -> IF isLoggedIn THEN "Search" ELSE "Login"
    [] p = "admin" -> IF isLoggedIn /\ role = "admin" THEN "AdminPanel" ELSE "Login"
    [] p = "edit" -> IF isLoggedIn /\ role = "admin" THEN "EditUser" ELSE "Login"
    [] OTHER -> "Login"

\* The user goes to another route.
Navigate(p) ==
  /\ page # p
  /\ page' = p
  /\ UNCHANGED <<query, answer, contextSnippets, sources, loading, call, lastAlert,
                 vdel, loadingBooks>>
  /\ UNCHANGED <<pollVars, appVars>>

\* ---- SpecApp: App from a first visit on.  localStorage is ambient: it may
\* already hold a user_id, which Search and AdminPanel read.
InitApp ==
  /\ variant = Vector
  /\ mounted = TRUE
  /\ uploadForm = ClearedForm
  /\ storage \in {[EmptyStorage EXCEPT !.user_id = u] : u \in {"", "7"}}
  /\ uploading = FALSE
  /\ ingest = "idle"
  /\ uploadStatus = NullStatus
  /\ uploadPollRef = 0
  /\ loops = << >>
  /\ page = "login"
  /\ query = << >>
  /\ answer = NoAnswer
  /\ contextSnippets = << >>
  /\ sources = << >>
  /\ loading = FALSE
  /\ call = NoCall
  /\ lastAlert = ""
  /\ vdel = NoVdel
  /\ loadingBooks = FALSE
  /\ fetches = SettledFetches
  /\ session \in {FreshSession(a) : a \in Apps}
  /\ probe = NoProbe
  /\ bdel = NoBdel
  /\ ingested = NoIngest

NextApp ==
  \/ Hydrate
  \/ \E p \in Payloads : handleLogin(p)
  \/ \E p \in Payloads : handleSignup(p)
  \/ handleLogout
  \/ \E p \in Routes : Navigate(p)

SpecApp == InitApp /\ [][NextApp]_vars

\* =========================================================================
\* AdminPanel.js: handleDeleteBook of the books panel
\* =========================================================================
\* (s || "").trim().toLowerCase() on the titles and authors used here; a
\* missing field is "".
LowerTrim(s) ==
  CASE s \in {"Dune", " dune ", "DUNE"} -> "dune"
    [] s \in {"Emma", "emma "} -> "emma"
    [] s \in {"Ann", " ann"} -> "ann"
    [] OTHER -> ""

\* The lists `books` can hold, and the books of an MCP list_books answer
UiBookLists ==
  {<<[title |-> "Dune", author |-> "Ann"]>>,
   <<[title |-> "Dune", author |-> "Ann"], [title |-> "emma ", author |-> ""]>>}
McpBookSet == [title : {" dune ", "Emma"}, author : {" ann", ""}]
McpLists == {L \in SUBSET McpBookSet : Cardinality(L) <= MaxBooks}

\* mcpBooks.find(...): some MCP book has the title and the author of
\* bookObj, both trimmed and lowercased.
McpMatch(mcpBooks, bookObj) ==
  \E mb \in mcpBooks :
    /\ LowerTrim(mb.title) = LowerTrim(bookObj.title)
    /\ LowerTrim(mb.author) = LowerTrim(bookObj.author)

\* Some invocation awaits an answer
DeleteInFlight == \E i \in 1..Len(bdel.calls) : bdel.calls[i].pc # "done"

\* A click on the Delete button of the row `id`, up to the first await: the
\* book is looked up in `books`, the user answers window.confirm; a
\* confirmed call sets loading and asks the MCP server for its books.
ClickDelete(id, confirmed) ==
  /\ mounted /\ variant = Legacy
  /\ id \in 1..Len(bdel.books)
  /\ Len(bdel.calls) < MaxDeletes
  /\ bdel' = IF confirmed
               THEN [bdel EXCEPT
                       !.calls = Append(bdel.calls,
                                   [id |-> id, pc |-> "list_get", listed |-> FALSE,
                                    inMcp |-> FALSE, asked |-> FALSE,
                                    proceed |-> FALSE,
                                    sent |-> <<"GET /mcp/list_books">>]),
                       !.loading = TRUE]
               ELSE bdel
  /\ UNCHANGED <<pollVars, searchVars, fetches, session, probe, ingested>>

\* GET /mcp/list_books answered for the call i: it threw (catch, finally),
\* or it brought mcpBooks.  A match leaves the try block with nothing more
\* done; without a match the user is asked whether to delete the backend
\* record anyway, and DELETE /admin/delete_book/:id is sent on a yes.
McpListReply(i, ok, mcpBooks, proceed) ==
  /\ i \in 1..Len(bdel.calls)
  /\ bdel.calls[i].pc = "list_get"
  /\ LET me == bdel.calls[i]
         match == McpMatch(mcpBooks, bdel.books[me.id])
     IN  bdel' =
           IF ~ok
             THEN [bdel EXCEPT !.calls[i].pc = "done",
                               !.alert = "Delete failed",
                               !.loading = FALSE]
           ELSE IF match
             THEN [bdel EXCEPT !.calls[i].pc = "done",
                               !.calls[i].listed = TRUE,
                               !.calls[i].inMcp = TRUE,
                               !.loading = FALSE]
           ELSE IF ~proceed
             THEN [bdel EXCEPT !.calls[i].pc = "done",
                               !.calls[i].listed = TRUE,
                               !.calls[i].asked = TRUE,
                               !.loading = FALSE]
           ELSE [bdel EXCEPT !.calls[i].pc = "delete",
                             !.calls[i].listed = TRUE,
                             !.calls[i].asked = TRUE,
                             !.calls[i].proceed = TRUE,
                             !.calls[i].sent =
                                Append(me.sent, "DELETE /admin/delete_book/:id")]
  /\ UNCHANGED <<pollVars, searchVars, fetches, session, probe, ingested>>

\* DELETE /admin/delete_book/:id answered for the call i: alert,
\* fetchBooks() and setLoading(false), or catch and finally.
BackendDeleteReply(i, ok) ==
  /\ i \in 1..Len(bdel.calls)
  /\ bdel.calls[i].pc = "delete"
  /\ bdel' = [bdel EXCEPT !.calls[i].pc = "done",
                          !.alert = IF ok THEN "Book record deleted from backend. (not in MCP)"
                                          ELSE "Delete failed",
                          !.loading = FALSE]
  /\ fetches' = IF ok THEN Refresh(fetches) ELSE fetches
  /\ UNCHANGED <<pollVars, searchVars, session, probe, ingested>>

\* ---- SpecBooks: the books panel of AdminPanel.js, its list loaded
InitBooks ==
  /\ variant = Legacy
  /\ PollInit
  /\ page = "admin"
  /\ query = << >>
  /\ answer = NoAnswer
  /\ contextSnippets = << >>
  /\ sources = << >>
  /\ loading = FALSE
  /\ call = NoCall
  /\ lastAlert = ""
  /\ vdel = NoVdel
  /\ loadingBooks = FALSE
  /\ fetches = SettledFetches
  /\ session = AdminSession
  /\ probe = NoProbe
  /\ ingested = NoIngest
  /\ bdel \in {[NoBdel EXCEPT !.books = L] : L \in UiBookLists}

NextBooks ==
  \/ \E id \in 1..MaxBooks, c \in BOOLEAN : ClickDelete(id, c)
  \/ \E i \in 1..MaxDeletes, ok \in BOOLEAN, L \in McpLists, p \in BOOLEAN :
       McpListReply(i, ok, L, p)
  \/ \E i \in 1..MaxDeletes, ok \in BOOLEAN : BackendDeleteReply(i, ok)
  \/ \E ok \in BOOLEAN : RefreshBooksReply(ok)

SpecBooks == InitBooks /\ [][NextBooks]_vars

\* ---- SpecParse: parseMcpAnswer applied to one response value
\* parseMcpAnswer(call.data): the value returned is kept in call.parsed.
ParseResponse ==
  /\ call.pc = "idle"
  /\ call' = [call EXCEPT !.pc = "done", !.parsed = parseMcpAnswer(call.data)]
  /\ UNCHANGED <<page, query, answer, contextSnippets, sources, loading,
                 lastAlert, vdel, loadingBooks>>
  /\ UNCHANGED pollVars
  /\ UNCHANGED appVars

InitParse ==
  /\ variant = Vector
  /\ PollInit
  /\ page = "search"
  /\ query = << >>
  /\ answer = NoAnswer
  /\ contextSnippets = << >>
  /\ sources = << >>
  /\ loading = FALSE
  /\ call \in {[NoCall EXCEPT !.data = d] : d \in Responses}
  /\ lastAlert = ""
  /\ vdel = NoVdel
  /\ loadingBooks = FALSE
  /\ fetches = SettledFetches
  /\ session = AdminSession
  /\ probe = NoProbe
  /\ bdel = NoBdel
  /\ ingested = NoIngest

NextParse == ParseResponse

SpecParse == InitParse /\ [][NextParse]_vars

\* ------------------------------------------------ claims on the polling loop
\* A callback of loop l returned from its await in this step.
Resumed(l) ==
  /\ l \in 1..Len(loops)
  /\ Len(loops') = Len(loops)
  /\ loops'[l].inflight < loops[l].inflight

\* C1: a polling loop whose status queries never report a terminal status
\* stops after exactly 40 ticks with uploadStatus.status = "timeout": once
\* the 40th callback has finished (none is still awaiting its request) the
\* interval is cleared, so that no 41st tick can fire, and the status of an
\* undisturbed loop is "timeout".
C1_StopsAfter40Ticks ==
  \A l \in 1..Len(loops) :
    (loops[l].tries = MaxTries /\ loops[l].inflight = 0 /\ loops[l].observed = "")
      => /\ ~loops[l].live
         /\ (mounted /\ l = Len(loops) /\ ingest = "idle")
              => uploadStatus.status = "timeout"

\* C2: once startUploadPolling has started a later loop, no callback of an
\* earlier loop updates uploadStatus or clears / resets the interval the
\* ref holds.
C2_StaleTickHarmless ==
  [][\A a \in 1..Len(loops) :
       (a < Len(loops) /\ Resumed(a))
         => (uploadStatus' = uploadStatus /\ uploadPollRef' = uploadPollRef
             /\ loops'[Len(loops)].live = loops[Len(loops)].live)]_vars

\* C3: after the useEffect cleanup has run and cleared the interval (no
\* ingest request pending, the ref holding no interval) no tick fires and
\* uploadStatus is never updated again.
C3_NoUpdateAfterTeardown ==
  [][(~mounted /\ ingest = "idle" /\ uploadPollRef = 0)
       => /\ uploadStatus' = uploadStatus
          /\ \A l \in 1..Len(loops) : loops'[l].tries = loops[l].tries]_vars

\* C4: whenever a callback of a loop finishes and the loop has observed a
\* terminal status (in this callback or an earlier one), the status it
\* leaves in uploadStatus is that terminal status: it is overwritten
\* neither by "timeout" nor by what another tick of the loop delivers.
C4_TerminalStatusSticks ==
  [][\A l \in 1..Len(loops) :
       (Resumed(l) /\ loops'[l].observed # "")
         => uploadStatus'.status = loops'[l].observed]_vars

\* C5: the synonyms "done" and "indexed" are never surfaced raw in
\* uploadStatus: both show as the one completed value.
C5_SynonymsSurfaceAsCompleted ==
  uploadStatus.status \notin {"done", "indexed"}

\* C6: if the first status query of a loop reports "done", exactly one tick
\* ever fires for that loop and its interval is cleared.
C6_DoneOnFirstQueryOneTick ==
  \A l \in 1..Len(loops) :
    loops[l].firstStatus = "done" => (loops[l].tries = 1 /\ ~loops[l].live)

\* ------------------------------------------------ claims on handleSearch
Sent(c, url) == \E i \in DOMAIN c.sent : c.sent[i] = url

\* C7: a delete request (POST /mcp/delete_book) goes out only after
\* window.confirm returned true for the matched book in the same handler
\* invocation, and carries that book; when the user declines no delete
\* request is sent and Search answers that the deletion was cancelled.
C7_DeleteOnlyAfterConfirm ==
  /\ Sent(call, "delete_book")
       => (call.confirmed /\ call.match # 0 /\ call.asked = call.match
           /\ call.book = call.match)
  /\ (call.asked # 0 /\ ~call.confirmed)
       => (~Sent(call, "delete_book") /\ call.pc = "done"
           /\ answer.kind = "cancelled")
  /\ Sent(vdel, "delete_book") => (vdel.confirmed /\ vdel.book = vdel.asked)
  /\ (vdel.asked # 0 /\ ~vdel.confirmed) => ~Sent(vdel, "delete_book")

\* C7 witness: the delete request for the second book of the list is in
\* flight after the user confirmed it.
C7_Witness ==
  call.pc = "del_post" /\ call.confirmed /\ call.book = 2 /\ Len(call.mbooks) = 2

\* The delete branch has matched against the fetched list.
Matched == call.route = "delete" /\ call.pc \in {"del_post", "done"}
CandOf(c) == norm(c.titleCandidate)
MinOf(S) == CHOOSE x \in S : \A y \in S : x <= y

\* The rule of the spec's order that book b satisfies first (5: none).
RankFour(b, cand) ==
  IF norm(b.title) = cand THEN 1
  ELSE IF norm(b.upload_id) = cand THEN 2
  ELSE IF TitleHit(b, cand) THEN 3
  ELSE IF AuthorHit(b, cand) THEN 4
  ELSE 5

\* The rule of the code's order that book b satisfies first (4: none).
RankThree(b, cand) ==
  IF ExactHit(b, cand) THEN 1
  ELSE IF TitleHit(b, cand) THEN 2
  ELSE IF AuthorHit(b, cand) THEN 3
  ELSE 4

\* C8 (as stated): the match is a book of the best rank in the order equal
\* title, equal upload_id, substring title, substring author; a lower rule
\* decides only when no book satisfies a higher one.
C8_FourRulesInOrder ==
  (Matched /\ call.match # 0)
    => \A i \in DOMAIN call.mbooks :
         RankFour(call.mbooks[call.match], CandOf(call))
           <= RankFour(call.mbooks[i], CandOf(call))

\* C8 (amended): equal title and equal upload_id are one rule.  The match is
\* the first book in list order among those of the best rank in the order
\* (equal title or equal upload_id), substring title, substring author; and
\* there is no match exactly when no book satisfies any rule.
C8_ThreeRulesInOrder ==
  Matched =>
    LET bs == call.mbooks
        cand == CandOf(call)
        hits == {i \in DOMAIN bs : RankThree(bs[i], cand) < 4}
    IN IF hits = {} THEN call.match = 0
       ELSE LET best == MinOf({RankThree(bs[i], cand) : i \in hits})
            IN call.match = MinOf({i \in hits : RankThree(bs[i], cand) = best})

\* C8 witness: the first book matches by upload_id only and is chosen,
\* although a later book has the equal title.
C8_Witness ==
  /\ Matched
  /\ call.match = 1
  /\ norm(call.mbooks[1].title) # CandOf(call)
  /\ \E i \in DOMAIN call.mbooks : i > 1 /\ norm(call.mbooks[i].title) = CandOf(call)

\* The words of t: its maximal runs of word characters.
WordsOf(t) ==
  {SubSeq(t, i, j) : <<i, j>> \in
     {p \in (1..Len(t)) \X (1..Len(t)) :
        /\ p[1] <= p[2]
        /\ \A k \in p[1]..p[2] : t[k] \in WordChars
        /\ (p[1] = 1 \/ t[p[1] - 1] \notin WordChars)
        /\ (p[2] = Len(t) \/ t[p[2] + 1] \notin WordChars)}}
HasWord(t, ws) == WordsOf(t) \cap ws # {}
DeleteWording(q) ==
  /\ HasWord(toLowerCase(q), {W_delete, W_remove, W_erase})
  /\ HasWord(toLowerCase(q), {W_book, W_books, W_entry, W_record})
Routed == call.pc # "idle"
SaysListAllBooks(q) == includes(toLowerCase(q), <<"l", "i", "s", "t", " ", "a", "l", "l", " ", "b", "o", "o", "k", "s">>)

\* C9 (as stated): every non-blank query whose lowercased text contains
\* "list all books" is routed to the List path, whatever else it contains.
C9_ListAllBooksAlwaysList ==
  (Routed /\ SaysListAllBooks(query)) => call.route = "list"

\* C9 (amended): such a query is routed to the List path (GET list_books)
\* unless it also has a delete verb and an object word as whole words; the
\* Delete test comes first and then takes it.
C9_ListAllBooksListUnlessDelete ==
  (Routed /\ SaysListAllBooks(query))
    => IF DeleteWording(query)
         THEN call.route = "delete"
         ELSE call.route = "list" /\ call.pc = "list_get"
              /\ call.sent = <<"list_books">>

\* C9 witness: a query with more text around "List all books" on the List path.
C9_Witness ==
  /\ call.route = "list"
  /\ SaysListAllBooks(query)
  /\ Len(trim(query)) > Len(<<"l", "i", "s", "t", " ", "a", "l", "l", " ", "b", "o", "o", "k", "s">>)

\* C10: a query is routed to the Delete path exactly when its lowercased
\* text has one of delete / remove / erase as a whole word and one of
\* book / books / entry / record as a whole word.
C10_DeleteIffWholeWords ==
  Routed => (call.route = "delete" <=> DeleteWording(query))

\* C10 witness: a delete verb glued to an object word ("deletebook") is not
\* routed to Delete.
C10_Witness ==
  /\ Routed
  /\ call.route = "search"
  /\ includes(toLowerCase(query), <<"d", "e", "l", "e", "t", "e", "b", "o", "o", "k">>)

\* C11: a query that is blank after trimming is rejected: the invocation
\* issues no request at all (no list, delete or search call), alerts the
\* user and has finished with loading = false.
C11_BlankQueryRejected ==
  (call.pc # "idle" /\ \A i \in DOMAIN query : query[i] \in Blank)
    => /\ call.sent = << >>
       /\ call.pc = "done"
       /\ ~loading
       /\ lastAlert = "Please enter a question or query."

\* C11 witness: a query of one space has been submitted and rejected.
C11_Witness ==
  call.pc = "done" /\ query = <<" ">> /\ call.route = "blank"

\* ---------------------------------------------- claims on parseMcpAnswer
AllStrings(a) == \A i \in DOMAIN a : a[i].t = "string"

\* C12: parseMcpAnswer never throws; the snippets and the sources it
\* returns hold strings only, and for {} or a null response it returns text
\* "", snippets [] and sources [].
C12_ParseReturnsStrings ==
  call.pc = "done"
    => /\ AllStrings(call.parsed.snippets)
       /\ AllStrings(call.parsed.sources)
       /\ call.data \in {NullBody, EmptyBody} => call.parsed = NoParsed

\* The array the snippets are taken from, and the one the sources are
\* taken from.
SnippetInput(d) ==
  IF d.t # "object" THEN << >>
  ELSE IF d.context.t = "array" THEN d.context.items
  ELSE IF d.results.t = "array" THEN d.results.items
  ELSE << >>
SourceInput(d) ==
  IF d.t # "object" THEN << >>
  ELSE IF d.sources.t = "array" THEN d.sources.items
  ELSE IF d.results.t = "array" THEN d.results.items
  ELSE << >>
Min(a, b) == IF a < b THEN a ELSE b

\* C13: the snippets and the sources each hold at most 6 elements, one for
\* each of the first 6 entries of the input array, in the order of the input
\* (an entry that is a string is passed through at its position).
C13_AtMostSixEach ==
  call.pc = "done"
    => /\ Len(call.parsed.snippets) <= SnippetCap
       /\ Len(call.parsed.sources) <= SnippetCap
       /\ \A i \in DOMAIN call.parsed.snippets :
            (call.data.context.t = "array" /\ call.data.context.items[i].t = "string")
              => call.parsed.snippets[i] = Str(call.data.context.items[i].s)
       /\ SnippetInput(call.data) # << >>
            => Len(call.parsed.snippets) = Min(Len(SnippetInput(call.data)), SnippetCap)
       /\ SourceInput(call.data) # << >>
            => Len(call.parsed.sources) = Min(Len(SourceInput(call.data)), SnippetCap)

\* The label the rule gives for an element r that is an object: the title
\* with " (id)" whenever r has an id field, else metadata.title, else the id
\* or the source field, else the serialization cut to 80 characters.
Present(v) == v.t # "undefined"
LabelByRule(r) ==
  IF Truthy(r.title)
    THEN Str(TemplateString(r.title)
             \o (IF Present(r.id) THEN <<" ", "(">> \o TemplateString(r.id) \o <<")">> ELSE << >>))
  ELSE IF r.hasMetadata /\ Truthy(r.metaTitle) THEN r.metaTitle
  ELSE IF Truthy(r.id) THEN r.id
  ELSE IF Truthy(r.source) THEN r.source
  ELSE Str(SubSeq(Stringify(r), 1, Min(Len(Stringify(r)), LabelCap)))

\* C14: without a sources array, each results element that is an object
\* yields the label of the rule above.
C14_SourceLabelByRule ==
  (call.pc = "done" /\ call.data.t = "object" /\ call.data.sources.t # "array"
     /\ call.data.results.t = "array")
    => \A i \in DOMAIN call.parsed.sources :
         call.data.results.items[i].t = "object"
           => call.parsed.sources[i] = LabelByRule(call.data.results.items[i])

\* ------------------------------------------------ claims on failed requests
\* C15: every request has a timeout after which it counts as failed, so
\* every handleSearch invocation finishes in the end with loading = false,
\* even when the server never answers.
C15_EveryInvocationFinishes ==
  (call.pc \notin {"idle", "done"}) ~> (call.pc = "done" /\ ~loading)

\* A request of the invocation failed: the catch block ran, or the inner
\* catch of the delete request did.
RequestFailed == call.caught \/ answer.kind = "deleteFailed"

\* C16: a failed list, delete or search request is handled inside
\* handleSearch: the invocation finishes, the user has a message (the alert
\* "Search failed: ..." or the answer "Delete request failed: ..."), a part
\* of it that comes from JSON.stringify has at most 300 characters, and
\* loading is false.
C16_FailuresHandledInside ==
  /\ call.pc = "done" => ~loading
  /\ call.caught
       => /\ call.pc = "done"
          /\ lastAlert = "Search failed"
          /\ call.alertDetail # << >>
          /\ call.alertJson => Len(call.alertDetail) <= AlertCap
  /\ answer.kind = "deleteFailed"
       => /\ call.pc = "done"
          /\ answer.text # << >>

\* C16 witness: a request failed with an error object whose serialization
\* is longer than 300 characters, and the alert shows 300 of them.
C16_Witness ==
  call.caught /\ call.alertJson /\ Len(call.alertDetail) = AlertCap /\ ~loading

\* ------------------------------------------------------ claims on teardown
\* C17: the teardown clears the polling interval and aborts the fetches
\* still pending; after it, a fetch that was aborted changes no state of
\* the component and shows no alert.
C17_AbortedFetchIsSilent ==
  [][/\ (mounted /\ ~mounted')
          => /\ uploadPollRef' = 0
             /\ \A l \in 1..Len(loops') : ~loops'[l].live
             /\ "pending" \notin {fetches'.books, fetches'.users}
     /\ (~mounted /\ fetches' # fetches)
          => /\ loadingBooks' = loadingBooks
             /\ lastAlert' = lastAlert
             /\ fetches'.booksSet = fetches.booksSet
             /\ fetches'.usersSet = fetches.usersSet]_vars

\* -------------------------------------------------- claims on the session
\* C18: the session lasts until logout.  While a user is logged in, the
\* stored flags are what a reload hydrates the same role from; only
\* handleLogout removes them; and handleLogout sets isLoggedIn to false and
\* role to null and removes isLoggedIn, role and user_id from localStorage.
C18_SessionUntilLogout ==
  [][/\ session'.isLoggedIn
          => (storage'.isLoggedIn # "" /\ storage'.role = session'.role)
     /\ (storage.isLoggedIn # "" /\ (storage'.isLoggedIn = "" \/ storage'.role = ""))
          => session'.op = "logout"
     /\ session'.op = "logout"
          => /\ ~session'.isLoggedIn
             /\ session'.role = ""
             /\ storage' = EmptyStorage]_vars

\* ------------------------------------------------- claims on resubmission
\* C19 as stated: nothing guards against concurrent submissions, so while
\* a handleSearch invocation is in flight a second one can be started.
C19_SecondSubmitWhileInFlight ==
  (page = "search" /\ call.pc \notin {"idle", "done"}) => CanSubmit

\* C19: while a handleSearch invocation is in flight loading is true, the
\* input and the submit button are disabled, and no second invocation can
\* be started; so at most one invocation is pending at any time.
C19_NoSubmitWhileInFlight ==
  /\ (call.pc \notin {"idle", "done"}) => (loading /\ ~CanSubmit)
  /\ (page = "search" /\ ~loading) => CanSubmit

\* C19 witness: a search request is awaited and the form is disabled.
C19_Witness ==
  call.pc = "search_post" /\ loading /\ query # << >> /\ ~CanSubmit

TextIn(d, v) == d.t = "object" /\ v.t = "string" /\ v.s # << >>
\* A nested answer that is there and not empty
AnswerIn(d, v) == d.t = "object" /\ v.t \notin {"undefined", "null"} /\ v # Str(<< >>)

\* C21: the answer displayed for a search query is the first non-empty of
\* the response's answer, text and data (each only if a string), then
\* payload.answer, then response.answer, and otherwise the JSON
\* serialization of the response cut to 400 characters; it is always a
\* string, and one that comes from the serialization has at most 400
\* characters.
C21_DisplayedAnswer ==
  (call.route = "search" /\ call.pc = "done" /\ ~call.caught)
    => LET d == call.data
           f == call.finalText
       IN /\ f.t = "string"
          /\ answer.text = f.s
          /\ CASE TextIn(d, d.answer) -> f = d.answer
               [] TextIn(d, d.text) -> f = d.text
               [] TextIn(d, d.data) -> f = d.data
               [] AnswerIn(d, d.payloadAnswer) -> f = d.payloadAnswer
               [] AnswerIn(d, d.responseAnswer) -> f = d.responseAnswer
               [] OTHER -> /\ Len(f.s) <= AnswerCap
                           /\ f.s = SubSeq(StringifyBody(d), 1, Len(f.s))
                           /\ Len(f.s) < AnswerCap => f.s = StringifyBody(d)

Returned(l) == probe.pc = "returned" /\ probe'.pc = "idle" /\ probe.loop = l
BothFailed == ~probe.backend.ok /\ ~probe.mcp.ok

\* C23 as stated: the backend endpoint is queried first and the MCP
\* endpoint only if the backend request fails; and whenever both fail the
\* tick leaves uploadStatus unchanged and polling continues.
C23_BothFailLeavesPolling ==
  [][\A l \in 1..Len(loops) :
       (Returned(l) /\ BothFailed)
         => /\ uploadStatus' = uploadStatus
            /\ loops'[l].live = loops[l].live
            /\ uploadPollRef' = uploadPollRef]_vars

\* C23: on each tick the backend endpoint is queried first and the MCP
\* endpoint only if the backend request failed; the first response that
\* arrived is the one used; a tick whose two requests failed has counted
\* as an attempt, and it leaves uploadStatus and the interval alone unless
\* it is past the ceiling (tries > 40): then it sets "timeout" and clears
\* the interval.
C23_BackendThenMcp ==
  [][/\ probe'.asked \in {<< >>, <<"backend">>, <<"backend", "mcp">>}
     /\ (probe'.pc = "mcp" /\ probe.pc # "mcp") => probe.pc = "backend"
     /\ probe'.backend.ok => (probe'.asked = <<"backend">> /\ ~probe'.mcp.ok)
     /\ (probe.pc = "idle" /\ probe'.pc = "backend")
          => loops'[probe'.loop].tries = loops[probe'.loop].tries + 1
     /\ \A l \in 1..Len(loops) :
          Returned(l)
            => LET used == IF probe.backend.ok THEN probe.backend ELSE probe.mcp
                   past == loops[l].tries > MaxTries
               IN /\ loops'[l].tries = loops[l].tries
                  /\ (used.ok /\ used.status # "" /\ ~past)
                       => /\ uploadStatus'.status = NormalizeStatus(variant, used.status)
                          /\ uploadStatus'.upload_id = loops[l].upload_id
                  /\ (BothFailed /\ ~past)
                       => /\ uploadStatus' = uploadStatus
                          /\ loops' = [loops EXCEPT ![l].inflight = @ - 1,
                                                    ![l].firstStatus = loops'[l].firstStatus]
                          /\ uploadPollRef' = uploadPollRef
                  /\ past
                       => /\ uploadStatus'.status = "timeout"
                          /\ uploadPollRef' = 0]_vars

\* C23 witness: the backend request failed, the MCP endpoint answered, and
\* its status is the one shown.
C23_Witness ==
  /\ probe.pc = "idle" /\ probe.asked = <<"backend", "mcp">>
  /\ probe.mcp.ok /\ probe.mcp.status = "failed"
  /\ uploadStatus.status = "failed"

\* ------------------------------------------- claims on startUploadPolling
\* C24: startUploadPolling(id) sets uploadStatus to upload_id = id with
\* status "indexing" at once and starts the attempt counter of the new
\* loop at 0, whatever the loops before it counted; afterwards the counter
\* of a loop moves only by one, by a tick of that loop, and no step moves
\* the counters of two loops.
C24_FreshCounterPerLoop ==
  [][/\ Len(loops') = Len(loops) + 1
          => /\ uploadStatus' = [upload_id |-> UploadIds[Len(loops')],
                                 status |-> "indexing",
                                 message |-> "Indexing started"]
             /\ loops'[Len(loops')].upload_id = UploadIds[Len(loops')]
             /\ loops'[Len(loops')].tries = 0
             /\ uploadPollRef' = Len(loops')
             /\ \A l \in 1..Len(loops) :
                  loops'[l].tries = loops[l].tries /\ ~loops'[l].live
     /\ \A l \in 1..Len(loops) :
          loops'[l].tries # loops[l].tries
            => /\ loops'[l].tries = loops[l].tries + 1
               /\ loops[l].live
               /\ loops'[l].inflight = loops[l].inflight + 1
               /\ \A k \in 1..Len(loops) : k # l => loops'[k] = loops[k]]_vars

\* C24 witness: a second loop has just been started with its counter at 0
\* while the first loop has counted a tick whose request is still pending.
C24_Witness ==
  /\ Len(loops) = 2
  /\ loops[1].tries > 0 /\ loops[1].inflight > 0
  /\ loops[2].tries = 0 /\ loops[2].live
  /\ uploadStatus.upload_id = UploadIds[2] /\ uploadStatus.status = "indexing"

\* ------------------------------------------- claims on the matched book
\* A text that is not empty and equals, contains or is contained in cand
Relates(t, cand) == t # << >> /\ (includes(t, cand) \/ includes(cand, t))
\* Book b has a normalized title, upload_id or author of that kind
RelatedBook(b, cand) ==
  \/ Relates(norm(b.title), cand)
  \/ Relates(norm(b.upload_id), cand)
  \/ Relates(norm(b.author), cand)

\* C25: in the delete flow of handleSearch the book offered for
\* confirmation, and the book deleted, has a non-empty normalized title,
\* upload_id or author that equals, contains or is contained in the
\* candidate; when the fetched list holds no such book the answer is
\* "could not find", no confirmation is asked and no delete request sent.
C25_MatchHasRelatedField ==
  (Matched /\ ~call.caught) =>
    LET bs == call.mbooks
        cand == CandOf(call)
    IN /\ call.asked # 0 => RelatedBook(bs[call.asked], cand)
       /\ call.book # 0 => RelatedBook(bs[call.book], cand)
       /\ (\A i \in DOMAIN bs : ~RelatedBook(bs[i], cand))
            => /\ call.asked = 0
               /\ ~Sent(call, "delete_book")
               /\ call.pc = "done" /\ answer.kind = "notfound"

\* -------------------------------------------------- claims on the upload
\* handleUploadPdf sent POST /ingest in this step
IngestSent == ingest = "idle" /\ ingest' = "posting"
\* handleUploadPdf ran in this step and returned early
UploadRefused == ingest = "idle" /\ ingest' = "idle" /\ lastAlert' # lastAlert
                   /\ fetches' = fetches

\* C26: handleUploadPdf sends the ingest request only when localStorage
\* holds a non-empty user_id and the role "admin", title and author (and
\* genre, in part_001) are not blank after trimming, and a file is
\* selected; then it sets uploading and clears uploadStatus.  Otherwise no
\* request is sent and uploading and uploadStatus stay as they are.
C26_IngestOnlyWhenAllowed ==
  [][LET allowed ==
           /\ storage.user_id # "" /\ storage.role = "admin"
           /\ uploadForm.title \notin {"", " "} /\ uploadForm.author \notin {"", " "}
           /\ (variant = Vector => uploadForm.genre \notin {"", " "})
           /\ uploadForm.file
     IN /\ IngestSent => (allowed /\ uploading' /\ uploadStatus' = NullStatus)
        /\ (ingest = "idle" /\ ~allowed)
             => (ingest' = "idle" /\ uploading' = uploading
                 /\ uploadStatus' = uploadStatus)
        /\ UploadRefused => ~allowed]_vars

\* C26 witness: an ordinary user with a complete form was refused.
C26_Witness ==
  /\ storage.role = "user" /\ storage.user_id # ""
  /\ uploadForm.file /\ uploadForm.title = "t" /\ uploadForm.author = "t"
  /\ uploadForm.genre = "t"
  /\ lastAlert = "No user id found or you are not an admin"
  /\ ingest = "idle" /\ ~uploading

\* handleUploadPdf went on after its await in this step
IngestDone == ingest = "posting" /\ ingest' = "idle"

\* C29: a polling loop is started exactly when the ingest response carries
\* an upload_id; a response without one starts no loop and has the book
\* list fetched again; a request that threw does neither.  uploading is
\* false when handleUploadPdf has finished, on every path, and the fields
\* of the upload form are cleared exactly when the request did not throw.
C29_PollingIffUploadId ==
  [][/\ IngestDone
          => /\ (Len(loops') = Len(loops) + 1) <=> (ingested'.ok /\ ingested'.id)
             /\ (Len(loops') # Len(loops) + 1) => loops' = loops
             /\ (ingested'.ok /\ ~ingested'.id) => fetches' = Refresh(fetches)
             /\ ~(ingested'.ok /\ ~ingested'.id) => fetches' = fetches
             /\ ~uploading'
             /\ ingested'.ok => uploadForm' = ClearedForm
             /\ ~ingested'.ok => uploadForm' = uploadForm
     /\ ~IngestDone => Len(loops') = Len(loops)
     /\ (ingest' = "idle") => ~uploading']_vars

\* C29 witness: the response carried no upload_id: no loop, the form
\* cleared, the book list is being fetched.
C29_Witness ==
  /\ ingested.ok /\ ~ingested.id /\ ingested.error = ""
  /\ loops = << >> /\ fetches.refresh = "pending"
  /\ uploadForm = ClearedForm /\ ~uploading /\ ingest = "idle"

\* --------------------------------------------------- claims on the routes
\* What App shows
Shown == Rendered(page, session.isLoggedIn, session.role)
\* The argument of handleLogin / handleSignup held no role: nothing was
\* passed, or an empty string, or (newer App) an object without a role.
\* App.js takes its argument for the role, so that an object is a role.
RoleMissing(a, payload) ==
  \/ payload.kind = "undefined"
  \/ payload.kind = "string" /\ payload.role = ""
  \/ payload.kind = "object" /\ payload.role = "" /\ a = "Login.js"

\* C27: whatever hydrate, login, signup and logout did, AdminPanel and
\* EditUser are shown only when isLoggedIn is true and role is "admin",
\* Search only when isLoggedIn is true; and handleLogin or handleSignup
\* called with a missing or empty role has set role to "user".
C27_RoutesGuarded ==
  /\ Shown \in {"AdminPanel", "EditUser"}
       => (session.isLoggedIn /\ session.role = "admin")
  /\ Shown = "Search" => session.isLoggedIn
  /\ (session.role = "admin" /\ session.op \in {"login", "signup"})
       => session.payload.role = "admin"
  /\ (session.op \in {"login", "signup"} /\ RoleMissing(session.app, session.payload))
       => (session.role = "user" /\ storage.role = "user")

\* C27 witness: a user who logged in with an object that names no role is
\* on the admin route and is shown Login.
C27_Witness ==
  /\ page = "admin" /\ session.isLoggedIn /\ session.op = "login"
  /\ session.payload.kind = "object" /\ session.payload.role = ""
  /\ session.role = "user" /\ Shown = "Login"

\* C28: whenever a user is logged in, the user_id held in localStorage is
\* absent or is the id supplied by the most recent login or signup, never
\* an id that an earlier login left behind.
C28_UserIdOfCurrentUser ==
  session.isLoggedIn
    => (storage.user_id = "" \/ storage.user_id = session.payload.user_id)

\* ------------------------------------------- claims on handleDeleteBook
\* The call c issued DELETE /admin/delete_book/:id
DeleteIssued(c) == \E k \in 1..Len(c.sent) : c.sent[k] = "DELETE /admin/delete_book/:id"

\* C30: once the user confirmed the deletion of a book of the UI list and
\* the MCP list request succeeded, a delete request for the book has been
\* issued, unless the user declined the second confirmation (shown when
\* the book is not in the MCP registry); and loading is false once every
\* handler has finished.
C30_ConfirmedDeleteIsSent ==
  /\ \A i \in 1..Len(bdel.calls) :
       LET c == bdel.calls[i]
       IN  (c.listed /\ ~(c.asked /\ ~c.proceed)) => DeleteIssued(c)
  /\ (Len(bdel.calls) > 0 /\ ~DeleteInFlight) => ~bdel.loading
=============================================================================
